---- MODULE Spec2Model ----
(***************************************************************************)
(* The C bridge of snapclient-ios (snapclient_bridge.cpp): one SnapClient  *)
(* handle, the control threads that call its API, and the io thread that   *)
(* snapclient_start creates.  Every load, store and lock of the source is  *)
(* one step, so that the interleavings of the source are the interleavings *)
(* of the model.  Atomics are sequentially consistent here.                *)
(***************************************************************************)
EXTENDS Integers, Sequences, FiniteSets, TLC

(* ---- SnapClientState, snapclient_bridge.h ---- *)
SNAPCLIENT_STATE_DISCONNECTED == 0
SNAPCLIENT_STATE_CONNECTING == 1
SNAPCLIENT_STATE_CONNECTED == 2
SNAPCLIENT_STATE_PLAYING == 3

(* ---- bounds ---- *)
\* API calls the owning thread t1 makes in one run
MaxCalls == 3
\* iterations of the guarded callback path each thread runs in SpecGuard
MaxIter == 2

(* ---- threads ---- *)
Ctl == {"t1", "t2"}
IO == "io"
Threads == Ctl \cup {IO}

\* what snapclient_start may be given
Servers == {<<"h1", 1704>>, <<"h2", 1705>>}
\* what snapclient_set_state_callback may be given: no callback, or one whose
\* body changes nothing of the handle
Callbacks == {"null", "cb1"}
\* the callback of the stress tests, which counts its invocations
Counting == "count"

VARIABLES
    \* ---- struct SnapClient ----
    mutexOwner,         \* mutex: the thread that holds it, or "none"
    callbacksInFlight,  \* std::atomic<int>
    destroying,         \* std::atomic<bool>
    cv,                 \* callbacksDone: "none" | "waiting" | "notified" (destroy is its one waiter)
    io_context,         \* "null" | "running" | "stopped"
    work_guard,         \* non-null?
    controller,         \* non-null?
    joinable,           \* io_thread.joinable()
    host, port,
    state,              \* std::atomic<SnapClientState>
    state_cb,           \* the registered state callback
    \* ---- the handle's storage and the process ----
    freed,              \* delete client has run
    proc,               \* "live" | "terminating" (std::terminate called) | "dead"
    ub,                 \* the undefined behaviours the run has met
    \* ---- threads ----
    pc,                 \* where each thread is in its API call (the io thread: in its lambda)
    ns,                 \* each thread's activation of notify_state
    result,             \* how a control thread's last API call returned
    \* ---- history ----
    calls,              \* API calls each control thread has made
    iter,               \* SpecGuard: guarded paths a thread has completed
    destroyer,          \* the thread that has called snapclient_destroy, or "none"
    bdReturned,         \* destroying has been stored by begin_destroy or destroy
    executed,           \* the count kept by the counting callback
    lastCb,             \* the state the latest state-callback invocation carried (-1: none yet)
    \* ---- the network layer (Controller), inside io_context.run() ----
    streaming,          \* the audio stream has started to flow
    \* ---- the three callback registrations, in full ----
    slot,               \* kind -> [cb, ctx]: state_cb/state_ctx, settings_cb/.., log_cb/..
    rg,                 \* each control thread's registration call: its arguments
    \* ---- playback control ----
    paused,             \* player::g_ios_player_paused, std::atomic<bool>
    lastOp,             \* which call made the latest store to it: "pause" | "resume" | "none"
    ops,                \* pause and resume calls that have returned
    \* ---- volume ----
    volume,             \* SnapClient::volume, std::atomic<int>
    vl,                 \* each control thread's volume call: its percent, the value it read
    sets,               \* the arguments of the set_volume calls, in the order of their stores
    \* ---- IOSPlayer ----
    player,             \* the IOSPlayer object's members
    aq,                 \* the device's audio queues: status and buffers enqueued
    rl,                 \* the worker's run loop: "idle" | "running" | "stopped"
    wk,                 \* the worker thread: position, its local queue, its loop index
    cbk,                \* the render callback in flight: position, myGeneration, its queue
    dtor,               \* ~IOSPlayer: position and its local runLoop
    env,                \* a thread calling IOSPlayer::pause / resume: position
    \* ---- per-instance log ----
    lg,                 \* a thread inside instance_log_msg: position, its copy of log_cb
    \* ---- IOSPlayer buffer sizing and playout delay ----
    bs,                 \* the stream's rate, ms_, frames_, and the last delay computed
    \* ---- several handles ----
    hs                  \* which handles exist, and the last call made on one

\* the registrations: state, settings and instance log
Kinds == {"state", "settings", "log"}

\* what a caller registers: a callback with its context, or null to unregister
Pairs == {[cb |-> "null", ctx |-> "null"], [cb |-> "f1", ctx |-> "c1"],
          [cb |-> "f2", ctx |-> "c2"]}
NoPair == [cb |-> "null", ctx |-> "null"]
NoReg == [kind |-> "state", cb |-> "null", ctx |-> "null", late |-> FALSE]

\* #define NUM_BUFFERS 4
NUM_BUFFERS == 4

\* the generations one run goes through: each session takes two
MaxGen == 4

\* the device's audio queues, each named by the generation it was created in
Sessions == 1..MaxGen

\* no instance_log_msg call in progress
NoLog == [pc |-> "idle", cb |-> "null", late |-> FALSE]

\* the sample rates a stream may have
Rates == {8000, 11025, 44100, 48000}

\* how many times one worker sizes its buffers (once per initAudioQueue)
MaxInits == 3

\* playback positions tried: 0 .. MaxPos past the start of a buffer
MaxPos == 2

\* no IOSPlayer constructed yet
NoSizing == [rate |-> 0, ms_ |-> 0, frames_ |-> 0, inits |-> 0,
             pos |-> 0, tl |-> FALSE, bufferedMs |-> 0]

\* the handles a process may create
Handles == {"c1", "c2", "c3"}

\* no handle created yet
NoHandles == [live |-> {}, op |-> "none", h |-> "none", got |-> FALSE]

\* no set_volume or get_volume call made yet
NoVol == [arg |-> 0, percent |-> 0, got |-> 0, read |-> FALSE, at |-> 0]

\* groups of variables, for UNCHANGED
res == <<io_context, work_guard, controller, joinable>>
conn == <<host, port>>
client == <<mutexOwner, callbacksInFlight, destroying, cv, res, conn, state, state_cb>>
sys == <<freed, proc, ub>>
ctl == <<result, calls, iter, destroyer>>
regv == <<slot, rg>>
pausev == <<paused, lastOp, ops>>
volv == <<volume, vl, sets>>
playerv == <<player, aq, rl, wk, cbk, dtor, env>>
ext == <<streaming, regv, pausev, volv, playerv, lg, bs, hs>>
\* for each component, the state of the other components
notStream == <<regv, pausev, volv, playerv, lg, bs, hs>>
notReg == <<streaming, pausev, volv, playerv, lg, bs, hs>>
notPause == <<streaming, regv, volv, playerv, lg, bs, hs>>
notVol == <<streaming, regv, pausev, playerv, lg, bs, hs>>
notLog == <<streaming, regv, pausev, volv, playerv, bs, hs>>
hist == <<bdReturned, executed, lastCb, ext>>
vars == <<mutexOwner, callbacksInFlight, destroying, cv, io_context, work_guard,
          controller, joinable, host, port, state, state_cb, freed, proc, ub,
          pc, ns, result, calls, iter, destroyer, bdReturned, executed, lastCb,
          streaming, slot, rg, paused, lastOp, ops, volume, vl, sets,
          player, aq, rl, wk, cbk, dtor, env, lg, bs, hs>>

(* ---- notify_state and CallbackGuard ---- *)

\* no activation of notify_state
NsIdle == [pc |-> "idle", st |-> 0, cb |-> "null", late |-> FALSE]

\* a thread can take a step: the process is alive and the thread is not lost
Runs(t) == proc # "dead" /\ pc[t] # "lost"

\* a step of thread t's API call (not of a notify_state it has called)
AtPc(t, l) == Runs(t) /\ ~freed /\ pc[t] = l /\ ns[t].pc = "idle"

\* a step of thread t's notify_state
AtNs(t, l) == Runs(t) /\ ~freed /\ ns[t].pc = l

\* thread t holds a valid CallbackGuard
Valid(t) == ns[t].pc \in {"ns_call", "body", "g_dec"}

\* thread t calls notify_state(c, s) and continues at l when it returns
CallNotify(t, s, l) ==
    /\ ns' = [ns EXCEPT ![t] = [NsIdle EXCEPT !.pc = "ns_store", !.st = s]]
    /\ pc' = [pc EXCEPT ![t] = l]

NsGoto(t, l) == ns' = [ns EXCEPT ![t].pc = l]
NsReturn(t) == ns' = [ns EXCEPT ![t] = NsIdle]

\* c->state.store(new_state)
ns_store(t) ==
    /\ AtNs(t, "ns_store")
    /\ state' = ns[t].st
    /\ NsGoto(t, "g_check1")
    /\ UNCHANGED <<mutexOwner, callbacksInFlight, destroying, cv, res, conn,
                   state_cb, sys, pc, ctl, hist>>

\* CallbackGuard(c): the first load of destroying
guard_check1(t) ==
    /\ AtNs(t, "g_check1")
    /\ ns' = [ns EXCEPT ![t].pc = IF destroying THEN "ns_invalid" ELSE "g_inc",
                         ![t].late = bdReturned]
    /\ UNCHANGED <<client, sys, pc, ctl, hist>>

\* callbacksInFlight.fetch_add(1)
guard_inc(t) ==
    /\ AtNs(t, "g_inc")
    /\ callbacksInFlight' = callbacksInFlight + 1
    /\ NsGoto(t, "g_check2")
    /\ UNCHANGED <<mutexOwner, destroying, cv, res, conn, state, state_cb, sys,
                   pc, ctl, hist>>

\* the double-check after the increment
guard_check2(t) ==
    /\ AtNs(t, "g_check2")
    /\ IF destroying
         THEN NsGoto(t, "g_undo")
         ELSE NsGoto(t, "ns_call")
    /\ UNCHANGED <<client, sys, pc, ctl, hist>>

\* mutant: the failing guard keeps its increment
guard_undo_keep(t) ==
    /\ AtNs(t, "g_undo")
    /\ NsGoto(t, "g_undo_notify")
    /\ UNCHANGED <<client, sys, pc, ctl, hist>>

\* the failing guard takes its increment back
guard_undo(t) ==
    /\ AtNs(t, "g_undo")
    /\ callbacksInFlight' = callbacksInFlight - 1
    /\ NsGoto(t, "g_undo_notify")
    /\ UNCHANGED <<mutexOwner, destroying, cv, res, conn, state, state_cb, sys,
                   pc, ctl, hist>>

\* callbacksDone.notify_all()
NotifyAll == cv' = IF cv = "waiting" THEN "notified" ELSE cv

guard_undo_notify(t) ==
    /\ AtNs(t, "g_undo_notify")
    /\ NotifyAll
    /\ NsGoto(t, "ns_invalid")
    /\ UNCHANGED <<mutexOwner, callbacksInFlight, destroying, res, conn, state,
                   state_cb, sys, pc, ctl, hist>>

\* if (!guard) return
ns_invalid(t) ==
    /\ Runs(t)
    /\ ns[t].pc = "ns_invalid"
    /\ NsReturn(t)
    /\ UNCHANGED <<client, sys, pc, ctl, hist>>

\* the callback and its context are copied under the (recursive) mutex, and
\* if (cb) cb(ctx, new_state): the body begins, outside the lock
ns_call(t) ==
    /\ AtNs(t, "ns_call")
    /\ mutexOwner \in {"none", t}
    /\ ns' = [ns EXCEPT ![t].pc = IF state_cb # "null" THEN "body" ELSE "g_dec",
                         ![t].cb = state_cb]
    /\ lastCb' = IF state_cb # "null" THEN ns[t].st ELSE lastCb
    /\ UNCHANGED <<client, sys, pc, ctl, bdReturned, executed, ext>>

\* the callback body runs and returns; it is the caller's code and touches no
\* field of the handle
ns_body_end(t) ==
    /\ Runs(t)
    /\ ns[t].pc = "body"
    /\ executed' = IF ns[t].cb = Counting THEN executed + 1 ELSE executed
    /\ NsGoto(t, "g_dec")
    /\ UNCHANGED <<client, sys, pc, ctl, bdReturned, lastCb, ext>>

\* mutant: the guard's destructor notifies but does not decrement
guard_dec_leak(t) ==
    /\ AtNs(t, "g_dec")
    /\ NsGoto(t, "g_notify")
    /\ UNCHANGED <<client, sys, pc, ctl, hist>>

\* ~CallbackGuard(): fetch_sub(1) == 1 decides whether to notify
guard_dec(t) ==
    /\ AtNs(t, "g_dec")
    /\ callbacksInFlight' = callbacksInFlight - 1
    /\ IF callbacksInFlight = 1 THEN NsGoto(t, "g_notify") ELSE NsReturn(t)
    /\ UNCHANGED <<mutexOwner, destroying, cv, res, conn, state, state_cb, sys,
                   pc, ctl, hist>>

guard_notify(t) ==
    /\ AtNs(t, "g_notify")
    /\ NotifyAll
    /\ NsReturn(t)
    /\ UNCHANGED <<mutexOwner, callbacksInFlight, destroying, res, conn, state,
                   state_cb, sys, pc, ctl, hist>>

CallbackGuard(t) ==
    \/ guard_check1(t) \/ guard_inc(t) \/ guard_check2(t)
    \/ guard_undo(t) \/ guard_undo_notify(t)
    \/ guard_dec(t) \/ guard_notify(t)

notify_state(t) ==
    \/ ns_store(t) \/ ns_invalid(t) \/ ns_call(t) \/ ns_body_end(t)
    \/ CallbackGuard(t)

(* ---- API calls ---- *)

\* t1 owns the handle; another thread, t2, makes one call on it
Budget(t) == IF t = "t1" THEN MaxCalls ELSE 1

\* a control thread may begin an API call: the caller's contract is that no
\* call begins once snapclient_destroy has been called
CanCall(t) ==
    /\ t \in Ctl
    /\ Runs(t) /\ ~freed
    /\ pc[t] = "idle" /\ ns[t].pc = "idle"
    /\ destroyer = "none"
    /\ calls[t] < Budget(t)

Begin(t) == calls' = [calls EXCEPT ![t] = @ + 1]

Goto(t, l) == pc' = [pc EXCEPT ![t] = l]

\* the call returns to its caller with outcome r
Return(t, r) ==
    /\ pc' = [pc EXCEPT ![t] = "idle"]
    /\ result' = [result EXCEPT ![t] = r]

(* ---- snapclient_begin_destroy ---- *)

\* mutant: begin_destroy returns without storing the flag
snapclient_begin_destroy_nostore(t) ==
    /\ CanCall(t)
    /\ Begin(t)
    /\ bdReturned' = TRUE
    /\ result' = [result EXCEPT ![t] = "begin_destroy"]
    /\ UNCHANGED <<client, sys, pc, ns, iter, destroyer, executed, lastCb, ext>>

\* mutant: begin_destroy flips the flag
snapclient_begin_destroy_flip(t) ==
    /\ CanCall(t)
    /\ Begin(t)
    /\ destroying' = ~destroying
    /\ bdReturned' = TRUE
    /\ result' = [result EXCEPT ![t] = "begin_destroy"]
    /\ UNCHANGED <<mutexOwner, callbacksInFlight, cv, res, conn, state, state_cb,
                   sys, pc, ns, iter, destroyer, executed, lastCb, ext>>

snapclient_begin_destroy(t) ==
    /\ CanCall(t)
    /\ Begin(t)
    /\ destroying' = TRUE
    /\ bdReturned' = TRUE
    /\ result' = [result EXCEPT ![t] = "begin_destroy"]
    /\ UNCHANGED <<mutexOwner, callbacksInFlight, cv, res, conn, state, state_cb,
                   sys, pc, ns, iter, destroyer, executed, lastCb, ext>>

(* ---- snapclient_set_state_callback ---- *)

\* if (client->destroying.load()) return
set_state_callback_check(t) ==
    /\ CanCall(t)
    /\ Begin(t)
    /\ IF destroying
         THEN Return(t, "set_cb_ignored")
         ELSE Goto(t, "sc_set") /\ UNCHANGED result
    /\ UNCHANGED <<client, sys, ns, iter, destroyer, hist>>

\* the pair is stored under the mutex
set_state_callback_set(t) ==
    /\ AtPc(t, "sc_set")
    /\ mutexOwner = "none"
    /\ \E cb \in Callbacks : state_cb' = cb
    /\ Return(t, "set_cb")
    /\ UNCHANGED <<mutexOwner, callbacksInFlight, destroying, cv, res, conn, state,
                   sys, ns, calls, iter, destroyer, hist>>

snapclient_set_state_callback(t) ==
    set_state_callback_check(t) \/ set_state_callback_set(t)

(* ---- snapclient_start ---- *)

\* std::lock_guard lock(client->mutex), held until start returns
start_lock(t) ==
    /\ CanCall(t)
    /\ Begin(t)
    /\ mutexOwner = "none"
    /\ mutexOwner' = t
    /\ Goto(t, "st_check")
    /\ UNCHANGED <<callbacksInFlight, destroying, cv, res, conn, state, state_cb,
                   sys, ns, result, iter, destroyer, hist>>

\* mutant: host and port are assigned before the state is checked
start_check_assigns_first(t) ==
    /\ AtPc(t, "st_check")
    /\ \E hp \in Servers : host' = hp[1] /\ port' = hp[2]
    /\ IF state # SNAPCLIENT_STATE_DISCONNECTED
         THEN /\ mutexOwner' = "none"
              /\ Return(t, "start_busy")
              /\ UNCHANGED ns
         ELSE /\ CallNotify(t, SNAPCLIENT_STATE_CONNECTING, "st_setup")
              /\ UNCHANGED <<mutexOwner, result>>
    /\ UNCHANGED <<callbacksInFlight, destroying, cv, res, state, state_cb, sys,
                   calls, iter, destroyer, hist>>

\* if (state != DISCONNECTED) return false; else host, port, notify CONNECTING
start_check(t) ==
    /\ AtPc(t, "st_check")
    /\ IF state # SNAPCLIENT_STATE_DISCONNECTED
         THEN /\ mutexOwner' = "none"
              /\ Return(t, "start_busy")
              /\ UNCHANGED <<conn, ns>>
         ELSE /\ \E hp \in Servers : host' = hp[1] /\ port' = hp[2]
              /\ CallNotify(t, SNAPCLIENT_STATE_CONNECTING, "st_setup")
              /\ UNCHANGED <<mutexOwner, result>>
    /\ UNCHANGED <<callbacksInFlight, destroying, cv, res, state, state_cb, sys,
                   calls, iter, destroyer, hist>>

\* an io_context is destroyed while the io thread is inside its run()
UnderRun == IF pc[IO] = "run" /\ io_context # "null"
              THEN ub \cup {"io_context destroyed in run"} ELSE ub

\* the try block: it throws, or it creates io_context, work_guard, controller
\* and the io thread
start_setup(t) ==
    /\ AtPc(t, "st_setup")
    /\ \/ \* catch: the three are reset and DISCONNECTED is notified
          /\ io_context' = "null" /\ work_guard' = FALSE /\ controller' = FALSE
          /\ ub' = UnderRun
          /\ CallNotify(t, SNAPCLIENT_STATE_DISCONNECTED, "st_fail")
          /\ UNCHANGED <<joinable, proc>>
       \/ \* success; assigning to a joinable std::thread calls std::terminate
          /\ io_context' = "running" /\ work_guard' = TRUE /\ controller' = TRUE
          /\ ub' = UnderRun
          /\ IF joinable
               THEN /\ proc' = "terminating"
                    /\ Goto(t, "lost")
                    /\ UNCHANGED <<joinable, ns>>
               ELSE /\ joinable' = TRUE
                    /\ ns' = [ns EXCEPT ![t] = [NsIdle EXCEPT !.pc = "ns_store",
                                         !.st = SNAPCLIENT_STATE_CONNECTED]]
                    /\ pc' = [pc EXCEPT ![t] = "st_ok", ![IO] = "run"]
                    /\ UNCHANGED proc
    /\ UNCHANGED <<mutexOwner, callbacksInFlight, destroying, cv, conn, state,
                   state_cb, freed, ctl, hist>>

\* return false from the catch block
start_fail(t) ==
    /\ AtPc(t, "st_fail")
    /\ mutexOwner' = "none"
    /\ Return(t, "start_throw")
    /\ UNCHANGED <<callbacksInFlight, destroying, cv, res, conn, state, state_cb,
                   sys, ns, calls, iter, destroyer, hist>>

\* return true
start_ok(t) ==
    /\ AtPc(t, "st_ok")
    /\ mutexOwner' = "none"
    /\ Return(t, "start_ok")
    /\ UNCHANGED <<callbacksInFlight, destroying, cv, res, conn, state, state_cb,
                   sys, ns, calls, iter, destroyer, hist>>

snapclient_start(t) ==
    \/ start_lock(t) \/ start_check(t) \/ start_setup(t)
    \/ start_fail(t) \/ start_ok(t)

(* ---- snapclient_stop ---- *)

\* stop returns: to snapclient_destroy's delete, or to the caller
StopReturn(t, r) ==
    /\ pc' = [pc EXCEPT ![t] = IF destroyer = t THEN "d_delete" ELSE "idle"]
    /\ result' = [result EXCEPT ![t] = r]

\* mutant: a stop of a disconnected handle still notifies DISCONNECTED
stop_check1_notifies(t) ==
    /\ \/ CanCall(t) /\ Begin(t)
       \/ AtPc(t, "s_check1") /\ UNCHANGED calls
    /\ IF state = SNAPCLIENT_STATE_DISCONNECTED
         THEN CallNotify(t, SNAPCLIENT_STATE_DISCONNECTED, "s_ret")
         ELSE Goto(t, "s_phase1") /\ UNCHANGED ns
    /\ UNCHANGED <<client, sys, result, iter, destroyer, hist>>

\* snapclient_stop is entered, from the caller or from snapclient_destroy; the
\* unlocked check: if (state == DISCONNECTED) return.  (result "stop_twice":
\* the caller's previous call was a stop too)
stop_check1(t) ==
    /\ \/ CanCall(t) /\ Begin(t)
       \/ AtPc(t, "s_check1") /\ UNCHANGED calls
    /\ IF state = SNAPCLIENT_STATE_DISCONNECTED
         THEN StopReturn(t, IF result[t] \in {"stop_full", "stop_twice"}
                              THEN "stop_twice" ELSE "stop_noop")
         ELSE Goto(t, "s_phase1") /\ UNCHANGED result
    /\ UNCHANGED <<client, sys, ns, iter, destroyer, hist>>

\* Phase 1, under the lock: the double-check, work_guard.reset(), io_context->stop()
stop_phase1(t) ==
    /\ AtPc(t, "s_phase1")
    /\ mutexOwner = "none"
    /\ IF state = SNAPCLIENT_STATE_DISCONNECTED
         THEN /\ StopReturn(t, "stop_noop_locked")
              /\ UNCHANGED <<io_context, work_guard>>
         ELSE /\ work_guard' = FALSE
              /\ io_context' = IF io_context = "null" THEN "null" ELSE "stopped"
              /\ Goto(t, "s_joinable")
              /\ UNCHANGED result
    /\ UNCHANGED <<mutexOwner, callbacksInFlight, destroying, cv, controller,
                   joinable, conn, state, state_cb, sys, ns, calls, iter,
                   destroyer, hist>>

\* Phase 2, no lock held: if (io_thread.joinable())
stop_joinable(t) ==
    /\ AtPc(t, "s_joinable")
    /\ Goto(t, IF joinable THEN "s_join" ELSE "s_cleanup")
    /\ UNCHANGED <<client, sys, ns, ctl, hist>>

\* the io thread's function has returned
IoFinished == pc[IO] \in {"off", "done"} /\ ns[IO].pc = "idle"

\* io_thread.join(): returns when the thread has finished
stop_join(t) ==
    /\ AtPc(t, "s_join")
    /\ IoFinished
    /\ IF joinable
         THEN /\ joinable' = FALSE
              /\ pc' = [pc EXCEPT ![t] = "s_cleanup", ![IO] = "off"]
              /\ UNCHANGED ub
         ELSE \* another thread has joined it since the joinable() check
              /\ ub' = ub \cup {"join of a thread already joined"}
              /\ Goto(t, "s_cleanup")
              /\ UNCHANGED joinable
    /\ UNCHANGED <<mutexOwner, callbacksInFlight, destroying, cv, io_context,
                   work_guard, controller, conn, state, state_cb, freed, proc, ns,
                   ctl, hist>>

\* Phase 3, under the lock: controller.reset(), io_context.reset(); then
\* notify_state(client, DISCONNECTED)
stop_cleanup(t) ==
    /\ AtPc(t, "s_cleanup")
    /\ mutexOwner = "none"
    /\ controller' = FALSE
    /\ io_context' = "null"
    /\ ub' = UnderRun
    /\ CallNotify(t, SNAPCLIENT_STATE_DISCONNECTED, "s_ret")
    /\ UNCHANGED <<mutexOwner, callbacksInFlight, destroying, cv, work_guard,
                   joinable, conn, state, state_cb, freed, proc, ctl, hist>>

stop_ret(t) ==
    /\ AtPc(t, "s_ret")
    /\ StopReturn(t, "stop_full")
    /\ UNCHANGED <<client, sys, ns, calls, iter, destroyer, hist>>

snapclient_stop(t) ==
    \/ stop_check1(t) \/ stop_phase1(t) \/ stop_joinable(t)
    \/ stop_join(t) \/ stop_cleanup(t) \/ stop_ret(t)

(* ---- snapclient_destroy ---- *)

\* the caller destroys the handle when no other call is in progress on it,
\* except one that is inside the state callback (the caller's own code)
MayDestroy(t) ==
    \A u \in Ctl \ {t} : (pc[u] = "idle" /\ ns[u].pc = "idle") \/ ns[u].pc = "body"

\* Phase 1: destroying.store(true)
destroy_set(t) ==
    /\ CanCall(t)
    /\ MayDestroy(t)
    /\ Begin(t)
    /\ destroying' = TRUE
    /\ bdReturned' = TRUE
    /\ destroyer' = t
    /\ Goto(t, "d_lock")
    /\ UNCHANGED <<mutexOwner, callbacksInFlight, cv, res, conn, state, state_cb,
                   sys, ns, result, iter, executed, lastCb, ext>>

\* Phase 2: std::unique_lock lock(client->mutex)
destroy_lock(t) ==
    /\ AtPc(t, "d_lock")
    /\ mutexOwner = "none"
    /\ mutexOwner' = t
    /\ Goto(t, "d_check")
    /\ UNCHANGED <<callbacksInFlight, destroying, cv, res, conn, state, state_cb,
                   sys, ns, ctl, hist>>

\* while (callbacksInFlight.load() > 0), read with the mutex held; leaving
\* the loop releases the mutex
destroy_check(t) ==
    /\ AtPc(t, "d_check")
    /\ IF callbacksInFlight > 0
         THEN mutexOwner' = mutexOwner /\ Goto(t, "d_enter")
         ELSE mutexOwner' = "none" /\ Goto(t, "s_check1")
    /\ UNCHANGED <<callbacksInFlight, destroying, cv, res, conn, state, state_cb,
                   sys, ns, ctl, hist>>

\* callbacksDone.wait_until(lock, deadline): gives the mutex up and blocks
destroy_wait(t) ==
    /\ AtPc(t, "d_enter")
    /\ mutexOwner' = "none"
    /\ cv' = "waiting"
    /\ Goto(t, "d_wait")
    /\ UNCHANGED <<callbacksInFlight, destroying, res, conn, state, state_cb, sys,
                   ns, ctl, hist>>

\* wait_until returns no_timeout: notified, or woken spuriously
destroy_wake(t) ==
    /\ AtPc(t, "d_wait")
    /\ mutexOwner = "none"
    /\ mutexOwner' = t
    /\ cv' = "none"
    /\ Goto(t, "d_check")
    /\ UNCHANGED <<callbacksInFlight, destroying, res, conn, state, state_cb, sys,
                   ns, ctl, hist>>

\* wait_until returns timeout after 2 s: warn and break
destroy_timeout(t) ==
    /\ AtPc(t, "d_wait")
    /\ mutexOwner = "none"
    /\ cv' = "none"
    /\ Goto(t, "s_check1")
    /\ UNCHANGED <<mutexOwner, callbacksInFlight, destroying, res, conn, state,
                   state_cb, sys, ns, ctl, hist>>

\* Phase 3, after snapclient_stop: delete client.  ~SnapClient destroys
\* io_thread, and ~thread of a joinable thread calls std::terminate
destroy_delete(t) ==
    /\ AtPc(t, "d_delete")
    /\ freed' = TRUE
    /\ IF joinable
         THEN proc' = "terminating" /\ Goto(t, "lost") /\ UNCHANGED result
         ELSE proc' = proc /\ Return(t, "destroyed")
    /\ UNCHANGED <<client, ub, ns, calls, iter, destroyer, hist>>

snapclient_destroy(t) ==
    \/ destroy_set(t) \/ destroy_lock(t) \/ destroy_check(t) \/ destroy_wait(t)
    \/ destroy_wake(t)
    \/ destroy_timeout(t) \/ destroy_delete(t)

(* ---- the io thread: the lambda of snapclient_start ---- *)

\* io_context->run() returns because snapclient_stop stopped the io_context
io_run_stopped ==
    /\ Runs(IO)
    /\ pc[IO] = "run"
    /\ io_context = "stopped"
    /\ Goto(IO, "exit")
    /\ UNCHANGED <<client, sys, ns, ctl, hist>>

\* a handler throws out of io_context->run(): catch (const std::exception&)
io_run_throws ==
    /\ Runs(IO)
    /\ pc[IO] = "run"
    /\ Goto(IO, "exit")
    /\ UNCHANGED <<client, sys, ns, ctl, hist>>

\* if (client->state.load() != DISCONNECTED) notify_state(client, DISCONNECTED);
\* then the thread's function returns
io_exit ==
    /\ AtPc(IO, "exit")
    /\ IF state # SNAPCLIENT_STATE_DISCONNECTED
         THEN CallNotify(IO, SNAPCLIENT_STATE_DISCONNECTED, "done")
         ELSE Goto(IO, "done") /\ UNCHANGED ns
    /\ UNCHANGED <<client, sys, ctl, hist>>

io_thread == io_run_stopped \/ io_run_throws \/ io_exit

(* ---- the handle's storage and the process ---- *)

\* the next step of thread t reads or writes a field of the handle
Touches(t) ==
    IF ns[t].pc # "idle"
      THEN ns[t].pc \notin {"body", "ns_invalid"}
      ELSE pc[t] \notin {"idle", "off", "run", "done", "lost", "loop", "s_ret"}

\* a thread uses the handle after delete: undefined behaviour, which the model
\* records and follows no further
UseAfterFree(t) ==
    /\ Runs(t)
    /\ freed
    /\ Touches(t)
    /\ ub' = ub \cup {"use after free"}
    /\ Goto(t, "lost")
    /\ UNCHANGED <<client, freed, proc, ns, ctl, hist>>

\* std::terminate ends the process (abort), some time after it was called
Abort ==
    /\ proc = "terminating"
    /\ proc' = "dead"
    /\ UNCHANGED <<client, freed, ub, pc, ns, ctl, hist>>

(* ---- the specification ---- *)

\* after snapclient_create
InitClient ==
    /\ mutexOwner = "none"
    /\ callbacksInFlight = 0
    /\ destroying = FALSE
    /\ cv = "none"
    /\ io_context = "null" /\ work_guard = FALSE /\ controller = FALSE
    /\ joinable = FALSE
    /\ host = "" /\ port = 1704
    /\ state = SNAPCLIENT_STATE_DISCONNECTED
    /\ freed = FALSE /\ proc = "live" /\ ub = {}
    /\ ns = [t \in Threads |-> NsIdle]
    /\ result = [t \in Ctl |-> "none"]
    /\ calls = [t \in Ctl |-> 0]
    /\ iter = [t \in Threads |-> 0]
    /\ destroyer = "none"
    /\ bdReturned = FALSE
    /\ executed = 0
    /\ lastCb = -1
    /\ streaming = FALSE
    /\ slot = [k \in Kinds |-> NoPair]
    /\ rg = [t \in Ctl |-> NoReg]
    /\ paused = FALSE /\ lastOp = "none" /\ ops = 0
    /\ volume = 100
    /\ vl = [t \in Ctl |-> NoVol]
    /\ sets = <<>>
    /\ player = [active_ |-> TRUE, queue_ |-> 0, timeLine_ |-> 0,
                 needsReinit_ |-> FALSE, shutdownRequested_ |-> FALSE,
                 workerRunLoop_ |-> FALSE, callbackActive_ |-> FALSE,
                 callbackGeneration_ |-> 0, queueMutex_ |-> "none"]
    /\ aq = [s \in Sessions |-> [status |-> "none", enq |-> 0]]
    /\ rl = "idle"
    /\ wk = [pc |-> "start", queue |-> 0, i |-> 0]
    /\ cbk = [pc |-> "idle", myGeneration |-> 0, queue |-> 0]
    /\ dtor = [pc |-> "none", runLoop |-> FALSE]
    /\ env = "idle"
    /\ lg = NoLog
    /\ bs = NoSizing
    /\ hs = NoHandles

Init ==
    /\ InitClient
    /\ state_cb = "null"
    /\ pc = [t \in Threads |-> IF t = IO THEN "off" ELSE "idle"]

Next ==
    \/ \E t \in Ctl : snapclient_begin_destroy(t)
    \/ \E t \in Ctl : snapclient_set_state_callback(t)
    \/ \E t \in Ctl : snapclient_start(t)
    \/ \E t \in Ctl : snapclient_stop(t)
    \/ \E t \in Ctl : snapclient_destroy(t)
    \/ \E t \in Threads : notify_state(t)
    \/ io_thread
    \/ \E t \in Threads : UseAfterFree(t)
    \/ Abort

Spec == Init /\ [][Next]_vars

(* ---- the guarded callback path under contention ---- *)

\* every thread runs notify_state MaxIter times on a handle whose state
\* callback is the counting one; a control thread that has finished may call
\* snapclient_begin_destroy while the others still run
guard_loop(t) ==
    /\ Runs(t) /\ ~freed
    /\ pc[t] = "loop" /\ ns[t].pc = "idle"
    /\ IF iter[t] < MaxIter
         THEN /\ iter' = [iter EXCEPT ![t] = @ + 1]
              /\ CallNotify(t, SNAPCLIENT_STATE_CONNECTED, "loop")
         ELSE /\ Goto(t, "idle")
              /\ UNCHANGED <<iter, ns>>
    /\ UNCHANGED <<client, sys, result, calls, destroyer, hist>>

InitGuard ==
    /\ InitClient
    /\ state_cb = Counting
    /\ pc = [t \in Threads |-> "loop"]

NextGuard ==
    \/ \E t \in Threads : guard_loop(t)
    \/ \E t \in Threads : notify_state(t)
    \/ \E t \in Ctl : snapclient_begin_destroy(t)

SpecGuard == InitGuard /\ [][NextGuard]_vars

(* ---- a handle whose state callback is registered before its first start ---- *)

\* after snapclient_create and snapclient_set_state_callback(client, cb, ctx)
InitNotify ==
    /\ InitClient
    /\ state_cb = Counting
    /\ pc = [t \in Threads |-> IF t = IO THEN "off" ELSE "idle"]

\* the callback is never registered again
NextNotify ==
    \/ \E t \in Ctl : snapclient_begin_destroy(t)
    \/ \E t \in Ctl : snapclient_start(t)
    \/ \E t \in Ctl : snapclient_stop(t)
    \/ \E t \in Ctl : snapclient_destroy(t)
    \/ \E t \in Threads : notify_state(t)
    \/ io_thread
    \/ \E t \in Threads : UseAfterFree(t)
    \/ Abort

SpecNotify == InitNotify /\ [][NextNotify]_vars

(* ---- callback registration ---- *)

\* mutant: the registration does not look at destroying
reg_check_nocheck(t) ==
    /\ CanCall(t)
    /\ Begin(t)
    /\ \E k \in Kinds, a \in Pairs :
          rg' = [rg EXCEPT ![t] = [kind |-> k, cb |-> a.cb, ctx |-> a.ctx,
                                   late |-> bdReturned]]
    /\ Goto(t, "rg_lock") /\ UNCHANGED result
    /\ UNCHANGED <<client, sys, ns, iter, destroyer, bdReturned, executed, lastCb,
                   slot, notReg>>

\* snapclient_set_state_callback, snapclient_set_settings_callback and
\* snapclient_set_instance_log_callback: the same code over three pairs of
\* fields.  A registration passes a callback and the context that goes with it
reg_check(t) ==
    /\ CanCall(t)
    /\ Begin(t)
    /\ \E k \in Kinds, a \in Pairs :
          rg' = [rg EXCEPT ![t] = [kind |-> k, cb |-> a.cb, ctx |-> a.ctx,
                                   late |-> bdReturned]]
    /\ IF destroying
         THEN Return(t, "reg_ignored")
         ELSE Goto(t, "rg_lock") /\ UNCHANGED result
    /\ UNCHANGED <<client, sys, ns, iter, destroyer, bdReturned, executed, lastCb,
                   slot, notReg>>

\* std::lock_guard lock(client->mutex)
reg_lock(t) ==
    /\ AtPc(t, "rg_lock")
    /\ mutexOwner = "none"
    /\ mutexOwner' = t
    /\ Goto(t, "rg_cb")
    /\ UNCHANGED <<callbacksInFlight, destroying, cv, res, conn, state, state_cb,
                   sys, ns, ctl, hist>>

\* client->..._cb = callback
reg_store_cb(t) ==
    /\ AtPc(t, "rg_cb")
    /\ slot' = [slot EXCEPT ![rg[t].kind].cb = rg[t].cb]
    /\ Goto(t, "rg_ctx")
    /\ UNCHANGED <<client, sys, ns, ctl, bdReturned, executed, lastCb, rg, notReg>>

\* client->..._ctx = ctx, and the lock is released on return
reg_store_ctx(t) ==
    /\ AtPc(t, "rg_ctx")
    /\ slot' = [slot EXCEPT ![rg[t].kind].ctx = rg[t].ctx]
    /\ mutexOwner' = "none"
    /\ Return(t, "reg_stored")
    /\ UNCHANGED <<callbacksInFlight, destroying, cv, res, conn, state, state_cb,
                   sys, ns, calls, iter, destroyer, bdReturned, executed, lastCb,
                   rg, notReg>>

register(t) ==
    \/ reg_check(t) \/ reg_lock(t) \/ reg_store_cb(t) \/ reg_store_ctx(t)

NextReg ==
    \/ \E t \in Ctl : register(t)
    \/ \E t \in Ctl : snapclient_begin_destroy(t)

SpecReg == Init /\ [][NextReg]_vars

(* ---- instance_log_msg ---- *)

\* a thread of the client calls instance_log_msg(client, level, fmt, ...):
\* the message is formatted
ilog_begin ==
    /\ proc # "dead" /\ ~freed
    /\ lg.pc = "idle"
    /\ lg' = [pc |-> "copy", cb |-> "null", late |-> bdReturned]
    /\ UNCHANGED <<client, sys, pc, ns, ctl, bdReturned, executed, lastCb, notLog>>

\* { lock_guard lock(client->mutex); cb = client->log_cb; ctx = client->log_ctx; }
ilog_copy ==
    /\ proc # "dead" /\ ~freed
    /\ lg.pc = "copy"
    /\ mutexOwner = "none"
    /\ lg' = [lg EXCEPT !.cb = slot["log"].cb,
                        !.pc = IF slot["log"].cb # "null" THEN "body" ELSE "global"]
    /\ UNCHANGED <<client, sys, pc, ns, ctl, bdReturned, executed, lastCb, notLog>>

\* if (!cb): the global callback is taken under g_log_mutex and called, if set
ilog_global ==
    /\ proc # "dead"
    /\ lg.pc = "global"
    /\ lg' = [lg EXCEPT !.pc = "idle"]
    /\ UNCHANGED <<client, sys, pc, ns, ctl, bdReturned, executed, lastCb, notLog>>

\* cb(ctx, level, buf): the instance's log callback runs and returns
ilog_body_end ==
    /\ proc # "dead"
    /\ lg.pc = "body"
    /\ lg' = [lg EXCEPT !.pc = "idle"]
    /\ UNCHANGED <<client, sys, pc, ns, ctl, bdReturned, executed, lastCb, notLog>>

instance_log_msg == ilog_begin \/ ilog_copy \/ ilog_global \/ ilog_body_end

NextLog ==
    \/ \E t \in Ctl : register(t)
    \/ \E t \in Ctl : snapclient_begin_destroy(t)
    \/ instance_log_msg

SpecLog == Init /\ [][NextLog]_vars

(* ---- snapclient_pause, snapclient_resume, snapclient_is_paused ---- *)

\* the threads of the contention run are numbered
Idx(t) == IF t = "t1" THEN 0 ELSE IF t = "t2" THEN 1 ELSE 2

\* thread t's next call is snapclient_pause: (t + i) % 2 == 0
PauseTurn(t) == (Idx(t) + iter[t]) % 2 = 0

\* the loop of a contending thread: MaxIter calls, then it ends
pause_loop(t) ==
    /\ Runs(t) /\ ~freed
    /\ pc[t] = "pz_loop"
    /\ IF iter[t] < MaxIter THEN Goto(t, "pz_call") ELSE Goto(t, "idle")
    /\ UNCHANGED <<client, sys, ns, ctl, hist>>

\* mutant: resume stores true
snapclient_resume_true(t) ==
    /\ AtPc(t, "pz_call")
    /\ ~PauseTurn(t)
    /\ paused' = TRUE
    /\ lastOp' = "resume"
    /\ Goto(t, "pz_count")
    /\ UNCHANGED <<client, sys, ns, ctl, bdReturned, executed, lastCb, ops, notPause>>

\* g_ios_player_paused.store(true)
snapclient_pause(t) ==
    /\ AtPc(t, "pz_call")
    /\ PauseTurn(t)
    /\ paused' = TRUE
    /\ lastOp' = "pause"
    /\ Goto(t, "pz_count")
    /\ UNCHANGED <<client, sys, ns, ctl, bdReturned, executed, lastCb, ops, notPause>>

\* g_ios_player_paused.store(false)
snapclient_resume(t) ==
    /\ AtPc(t, "pz_call")
    /\ ~PauseTurn(t)
    /\ paused' = FALSE
    /\ lastOp' = "resume"
    /\ Goto(t, "pz_count")
    /\ UNCHANGED <<client, sys, ns, ctl, bdReturned, executed, lastCb, ops, notPause>>

\* the call has returned: the caller counts it (pause_count, resume_count)
pause_counted(t) ==
    /\ AtPc(t, "pz_count")
    /\ ops' = ops + 1
    /\ iter' = [iter EXCEPT ![t] = @ + 1]
    /\ Goto(t, "pz_loop")
    /\ UNCHANGED <<client, sys, ns, result, calls, destroyer, bdReturned, executed,
                   lastCb, paused, lastOp, notPause>>

\* snapclient_is_paused: g_ios_player_paused.load()
snapclient_is_paused == paused

InitPause ==
    /\ InitClient
    /\ state_cb = "null"
    /\ pc = [t \in Threads |-> "pz_loop"]

NextPause ==
    \/ \E t \in Threads : pause_loop(t)
    \/ \E t \in Threads : snapclient_pause(t)
    \/ \E t \in Threads : snapclient_resume(t)
    \/ \E t \in Threads : pause_counted(t)

SpecPause == InitPause /\ [][NextPause]_vars

(* ---- snapclient_set_volume, snapclient_get_volume ---- *)

\* the integers a caller passes: below, at and above both ends of the range
Percents == {-5, 0, 50, 100, 150}

\* mutant: the upper clamp is missing
ClampPercent_noupper(percent) ==
    IF percent < 0 THEN 0 ELSE percent

\* if (percent < 0) percent = 0; if (percent > 100) percent = 100;
ClampPercent(percent) ==
    LET p0 == IF percent < 0 THEN 0 ELSE percent
    IN  IF p0 > 100 THEN 100 ELSE p0

\* snapclient_set_volume begins: the argument is clamped in the local percent
set_volume_clamp(t) ==
    /\ CanCall(t)
    /\ Begin(t)
    /\ \E p \in Percents :
          vl' = [vl EXCEPT ![t].percent = ClampPercent(p), ![t].arg = p]
    /\ Goto(t, "sv_store")
    /\ UNCHANGED <<client, sys, ns, result, iter, destroyer, bdReturned, executed,
                   lastCb, volume, sets, notVol>>

\* client->volume.store(percent)
set_volume_store(t) ==
    /\ AtPc(t, "sv_store")
    /\ volume' = vl[t].percent
    /\ sets' = Append(sets, vl[t].arg)
    /\ Return(t, "volume_set")
    /\ UNCHANGED <<client, sys, ns, calls, iter, destroyer, bdReturned, executed,
                   lastCb, vl, notVol>>

\* snapclient_get_volume: client->volume.load()
snapclient_get_volume(t) ==
    /\ CanCall(t)
    /\ Begin(t)
    /\ vl' = [vl EXCEPT ![t].got = volume, ![t].read = TRUE, ![t].at = Len(sets)]
    /\ Return(t, "volume_read")
    /\ UNCHANGED <<client, sys, ns, iter, destroyer, bdReturned, executed,
                   lastCb, volume, sets, notVol>>

snapclient_set_volume(t) == set_volume_clamp(t) \/ set_volume_store(t)

NextVol ==
    \/ \E t \in Ctl : snapclient_set_volume(t)
    \/ \E t \in Ctl : snapclient_get_volume(t)

SpecVol == Init /\ [][NextVol]_vars

(* ---- IOSPlayer: worker, render callback, destructor ---- *)

\* what the player's steps leave alone
notPlayer == <<client, sys, pc, ns, ctl, bdReturned, executed, lastCb,
               streaming, regv, lastOp, ops, volv, lg, bs, hs>>

\* CFRunLoopStop: ends the current activation of the run loop; a run loop
\* that is not running is left as it is
CFRunLoopStop(r) == IF r = "running" THEN "stopped" ELSE r

\* device queues created and not yet disposed
LiveSessions == {s \in Sessions : aq[s].status \in {"created", "started", "pausedq", "stopped"}}

\* AudioQueueEnqueueBuffer(queue, bufferRef, 0, NULL)
AudioQueueEnqueueBuffer(q) ==
    IF aq[q].status = "disposed" THEN aq
    ELSE [aq EXCEPT ![q].enq = IF @ < NUM_BUFFERS THEN @ + 1 ELSE @]

\* -- worker() --

\* workerRunLoop_.store(CFRunLoopGetCurrent())
worker_begin ==
    /\ wk.pc = "start"
    /\ player' = [player EXCEPT !.workerRunLoop_ = TRUE]
    /\ wk' = [wk EXCEPT !.pc = "loop"]
    /\ UNCHANGED <<notPlayer, paused, aq, rl, cbk, dtor, env>>

\* while (active_ && !shutdownRequested_.load()) { needsReinit_.store(false);
worker_loop ==
    /\ wk.pc = "loop"
    /\ IF player.active_ /\ ~player.shutdownRequested_
         THEN /\ player' = [player EXCEPT !.needsReinit_ = FALSE]
              /\ wk' = [wk EXCEPT !.pc = "wait"]
         ELSE /\ wk' = [wk EXCEPT !.pc = "exit"]
              /\ UNCHANGED player
    /\ UNCHANGED <<notPlayer, paused, aq, rl, cbk, dtor, env>>

\* pubStream_->waitForChunk(100 ms): a chunk arrived, or the wait timed out
\* (no more chunks arrive once the run's generations are used up)
worker_wait ==
    /\ wk.pc = "wait"
    /\ \E chunk \in BOOLEAN :
          /\ chunk => player.callbackGeneration_ + 2 <= MaxGen
          /\ wk' = [wk EXCEPT !.pc = IF chunk THEN "init" ELSE "sleep"]
    /\ UNCHANGED <<notPlayer, paused, player, aq, rl, cbk, dtor, env>>

\* mutant: initAudioQueue without its guard against a queue already set
init_guard_none ==
    /\ wk.pc = "init"
    /\ player' = [player EXCEPT !.callbackGeneration_ = @ + 1]
    /\ wk' = [wk EXCEPT !.pc = "new"]
    /\ UNCHANGED <<notPlayer, paused, aq, rl, cbk, dtor, env>>

\* initAudioQueue: if (queue_) return false; callbackGeneration_.fetch_add(1)
init_guard ==
    /\ wk.pc = "init"
    /\ IF player.queue_ # 0
         THEN /\ wk' = [wk EXCEPT !.pc = "sleep"]
              /\ UNCHANGED player
         ELSE /\ player' = [player EXCEPT !.callbackGeneration_ = @ + 1]
              /\ wk' = [wk EXCEPT !.pc = "new"]
    /\ UNCHANGED <<notPlayer, paused, aq, rl, cbk, dtor, env>>

\* AudioQueueNewOutput(..., ios_callback, this, CFRunLoopGetCurrent(), ...):
\* a new queue, or an error
init_new ==
    /\ wk.pc = "new"
    /\ \/ /\ aq' = [aq EXCEPT ![player.callbackGeneration_].status = "created"]
          /\ wk' = [wk EXCEPT !.pc = "setq", !.queue = player.callbackGeneration_]
       \/ /\ wk' = [wk EXCEPT !.pc = "sleep"]
          /\ UNCHANGED aq
    /\ UNCHANGED <<notPlayer, paused, player, rl, cbk, dtor, env>>

\* { lock_guard lock(queueMutex_); queue_ = queue; } and the timeline (a
\* failure to create it is non-fatal and leaves timeLine_ null, which only
\* changes the delay the callback computes)
init_setq ==
    /\ wk.pc = "setq"
    /\ player.queueMutex_ = "none"
    /\ player' = [player EXCEPT !.queue_ = wk.queue, !.timeLine_ = wk.queue]
    /\ wk' = [wk EXCEPT !.pc = "prime", !.i = 0]
    /\ UNCHANGED <<notPlayer, paused, aq, rl, cbk, dtor, env>>

\* for (i < NUM_BUFFERS) ios_callback(this, queue, buffers[i]): playerCallback
\* run by the worker itself; stalled: the pull failed and lastChunkTick (0
\* at first) is more than 5000 ms old
init_prime ==
    /\ wk.pc = "prime"
    /\ IF wk.i < NUM_BUFFERS
         THEN /\ wk' = [wk EXCEPT !.i = @ + 1]
              /\ \/ /\ paused
                    /\ aq' = AudioQueueEnqueueBuffer(wk.queue)
                    /\ UNCHANGED <<player, rl>>
                 \/ /\ ~paused /\ player.shutdownRequested_
                    /\ player' = [player EXCEPT !.needsReinit_ = TRUE]
                    /\ rl' = IF player.workerRunLoop_ THEN CFRunLoopStop(rl) ELSE rl
                    /\ UNCHANGED aq
                 \/ /\ ~paused /\ ~player.shutdownRequested_
                    /\ \E stalled \in BOOLEAN :
                         IF stalled
                           THEN /\ player' = [player EXCEPT !.needsReinit_ = TRUE]
                                /\ rl' = IF player.workerRunLoop_ THEN CFRunLoopStop(rl) ELSE rl
                                /\ UNCHANGED aq
                           ELSE /\ aq' = AudioQueueEnqueueBuffer(wk.queue)
                                /\ UNCHANGED <<player, rl>>
         ELSE /\ wk' = [wk EXCEPT !.pc = "startq"]
              /\ UNCHANGED <<player, aq, rl>>
    /\ UNCHANGED <<notPlayer, paused, cbk, dtor, env>>

\* an exception while the buffers are primed: caught in worker(), which
\* skips cleanupAudioQueue
init_throws ==
    /\ wk.pc = "prime"
    /\ wk' = [wk EXCEPT !.pc = "sleep"]
    /\ UNCHANGED <<notPlayer, paused, player, aq, rl, cbk, dtor, env>>

\* if (!g_ios_player_paused) AudioQueueStart(queue, NULL), which may fail:
\* timeLine_ = nullptr, queue_ = nullptr, AudioQueueDispose(queue), return false
init_start ==
    /\ wk.pc = "startq"
    /\ IF ~paused
         THEN \/ /\ aq' = [aq EXCEPT ![wk.queue].status = "started"]
                 /\ wk' = [wk EXCEPT !.pc = "run"]
                 /\ UNCHANGED player
              \/ /\ player.queueMutex_ = "none"
                 /\ player' = [player EXCEPT !.timeLine_ = 0, !.queue_ = 0]
                 /\ aq' = [aq EXCEPT ![wk.queue] = [status |-> "disposed", enq |-> 0]]
                 /\ wk' = [wk EXCEPT !.pc = "sleep"]
         ELSE /\ wk' = [wk EXCEPT !.pc = "run"]
              /\ UNCHANGED <<player, aq>>
    /\ UNCHANGED <<notPlayer, paused, rl, cbk, dtor, env>>

\* CFRunLoopRun(): a new activation of the run loop begins
worker_run ==
    /\ wk.pc = "run"
    /\ rl' = "running"
    /\ wk' = [wk EXCEPT !.pc = "blocked"]
    /\ UNCHANGED <<notPlayer, paused, player, aq, cbk, dtor, env>>

\* CFRunLoopRun() returns once the activation has been stopped
worker_wakes ==
    /\ wk.pc = "blocked"
    /\ rl = "stopped"
    /\ rl' = "idle"
    /\ wk' = [wk EXCEPT !.pc = "cleanup"]
    /\ UNCHANGED <<notPlayer, paused, player, aq, cbk, dtor, env>>

\* mutant: cleanup without the generation bump
cleanup_bump_none ==
    /\ wk.pc = "cleanup"
    /\ wk' = [wk EXCEPT !.pc = "c_lock"]
    /\ UNCHANGED <<notPlayer, paused, player, aq, rl, cbk, dtor, env>>

\* mutant: cleanup takes the generation back instead of advancing it
cleanup_bump_back ==
    /\ wk.pc = "cleanup"
    /\ player' = [player EXCEPT !.callbackGeneration_ = @ - 1]
    /\ wk' = [wk EXCEPT !.pc = "c_lock"]
    /\ UNCHANGED <<notPlayer, paused, aq, rl, cbk, dtor, env>>

\* cleanupAudioQueue step 1: callbackGeneration_.fetch_add(1)
cleanup_bump ==
    /\ wk.pc = "cleanup"
    /\ player' = [player EXCEPT !.callbackGeneration_ = @ + 1]
    /\ wk' = [wk EXCEPT !.pc = "c_lock"]
    /\ UNCHANGED <<notPlayer, paused, aq, rl, cbk, dtor, env>>

\* lock_guard lock(queueMutex_); if (!queue_) return; q = queue_; queue_ = nullptr
cleanup_lock ==
    /\ wk.pc = "c_lock"
    /\ player.queueMutex_ = "none"
    /\ IF player.queue_ = 0
         THEN /\ wk' = [wk EXCEPT !.pc = "sleep"]
              /\ UNCHANGED player
         ELSE /\ player' = [player EXCEPT !.queue_ = 0, !.queueMutex_ = "worker"]
              /\ wk' = [wk EXCEPT !.pc = "c_stop", !.queue = player.queue_]
    /\ UNCHANGED <<notPlayer, paused, aq, rl, cbk, dtor, env>>

\* AudioQueueStop(q, true): no new callbacks are scheduled
cleanup_stop ==
    /\ wk.pc = "c_stop"
    /\ aq' = [aq EXCEPT ![wk.queue] = [status |-> "stopped", enq |-> 0]]
    /\ wk' = [wk EXCEPT !.pc = "c_wait"]
    /\ UNCHANGED <<notPlayer, paused, player, rl, cbk, dtor, env>>

\* callbackDone_.wait_until(500 ms, !callbackActive_): the callback has
\* exited, or the deadline passed and cleanup proceeds anyway
cleanup_wait ==
    /\ wk.pc = "c_wait"
    /\ \/ ~player.callbackActive_
       \/ player.callbackActive_
    /\ wk' = [wk EXCEPT !.pc = "c_dispose"]
    /\ UNCHANGED <<notPlayer, paused, player, aq, rl, cbk, dtor, env>>

\* timeLine_.exchange(nullptr), AudioQueueDispose(q, true), clearChunks();
\* the lock_guard releases queueMutex_ on return
cleanup_dispose ==
    /\ wk.pc = "c_dispose"
    /\ player' = [player EXCEPT !.timeLine_ = 0, !.queueMutex_ = "none"]
    /\ aq' = [aq EXCEPT ![wk.queue] = [status |-> "disposed", enq |-> 0]]
    /\ wk' = [wk EXCEPT !.pc = "sleep"]
    /\ UNCHANGED <<notPlayer, paused, rl, cbk, dtor, env>>

cleanupAudioQueue == cleanup_bump \/ cleanup_lock \/ cleanup_stop \/ cleanup_wait \/ cleanup_dispose

initAudioQueue == init_guard \/ init_new \/ init_setq \/ init_prime \/ init_throws \/ init_start

\* if (!needsReinit_) chronos::sleep(100); then the loop condition again
worker_sleep ==
    /\ wk.pc = "sleep"
    /\ wk' = [wk EXCEPT !.pc = "loop"]
    /\ UNCHANGED <<notPlayer, paused, player, aq, rl, cbk, dtor, env>>

\* workerRunLoop_.store(nullptr); the thread ends
worker_exit ==
    /\ wk.pc = "exit"
    /\ player' = [player EXCEPT !.workerRunLoop_ = FALSE]
    /\ wk' = [wk EXCEPT !.pc = "done"]
    /\ UNCHANGED <<notPlayer, paused, aq, rl, cbk, dtor, env>>

worker ==
    \/ worker_begin \/ worker_loop \/ worker_wait
    \/ initAudioQueue
    \/ worker_run \/ worker_wakes
    \/ cleanupAudioQueue
    \/ worker_sleep \/ worker_exit

\* -- playerCallback, called by the device for a buffer that has played --

\* the callback leaves: ~CallbackActiveGuard
CallbackExit(p) == [p EXCEPT !.callbackActive_ = FALSE]

\* the device calls ios_callback for a started queue: CallbackActiveGuard,
\* myGeneration = callbackGeneration_.load()
cb_invoke ==
    /\ cbk.pc = "idle"
    /\ \E s \in Sessions :
          /\ aq[s].status = "started" /\ aq[s].enq > 0
          /\ aq' = [aq EXCEPT ![s].enq = @ - 1]
          /\ cbk' = [pc |-> "paused", myGeneration |-> player.callbackGeneration_,
                     queue |-> s]
    /\ player' = [player EXCEPT !.callbackActive_ = TRUE]
    /\ UNCHANGED <<notPlayer, paused, rl, wk, dtor, env>>

\* mutant: the paused fast path returns without re-submitting its buffer
cb_paused_drop ==
    /\ cbk.pc = "paused"
    /\ IF paused
         THEN /\ player' = CallbackExit(player)
              /\ cbk' = [cbk EXCEPT !.pc = "idle"]
              /\ UNCHANGED aq
         ELSE /\ cbk' = [cbk EXCEPT !.pc = "shutdown"]
              /\ UNCHANGED <<aq, player>>
    /\ UNCHANGED <<notPlayer, paused, rl, wk, dtor, env>>

\* fast path: if (g_ios_player_paused) { memset; AudioQueueEnqueueBuffer; return; }
cb_paused ==
    /\ cbk.pc = "paused"
    /\ IF paused
         THEN /\ aq' = AudioQueueEnqueueBuffer(cbk.queue)
              /\ player' = CallbackExit(player)
              /\ cbk' = [cbk EXCEPT !.pc = "idle"]
         ELSE /\ cbk' = [cbk EXCEPT !.pc = "shutdown"]
              /\ UNCHANGED <<aq, player>>
    /\ UNCHANGED <<notPlayer, paused, rl, wk, dtor, env>>

\* mutant: on shutdown the callback signals and still re-submits its buffer
cb_shutdown_enqueues ==
    /\ cbk.pc = "shutdown"
    /\ IF player.shutdownRequested_
         THEN /\ player' = CallbackExit([player EXCEPT !.needsReinit_ = TRUE])
              /\ rl' = IF player.workerRunLoop_ THEN CFRunLoopStop(rl) ELSE rl
              /\ aq' = AudioQueueEnqueueBuffer(cbk.queue)
              /\ cbk' = [cbk EXCEPT !.pc = "idle"]
         ELSE /\ cbk' = [cbk EXCEPT !.pc = "check"]
              /\ UNCHANGED <<player, rl, aq>>
    /\ UNCHANGED <<notPlayer, paused, wk, dtor, env>>

\* mutant: on shutdown the callback stops its queue itself
cb_shutdown_teardown ==
    /\ cbk.pc = "shutdown"
    /\ IF player.shutdownRequested_
         THEN /\ player' = CallbackExit([player EXCEPT !.needsReinit_ = TRUE])
              /\ rl' = IF player.workerRunLoop_ THEN CFRunLoopStop(rl) ELSE rl
              /\ aq' = [aq EXCEPT ![cbk.queue].status = "stopped"]
              /\ cbk' = [cbk EXCEPT !.pc = "idle"]
         ELSE /\ cbk' = [cbk EXCEPT !.pc = "check"]
              /\ UNCHANGED <<player, rl, aq>>
    /\ UNCHANGED <<notPlayer, paused, wk, dtor, env>>

\* if (shutdownRequested_) { needsReinit_ = true; if (rl) CFRunLoopStop(rl); return; }
cb_shutdown ==
    /\ cbk.pc = "shutdown"
    /\ IF player.shutdownRequested_
         THEN /\ player' = CallbackExit([player EXCEPT !.needsReinit_ = TRUE])
              /\ rl' = IF player.workerRunLoop_ THEN CFRunLoopStop(rl) ELSE rl
              /\ cbk' = [cbk EXCEPT !.pc = "idle"]
         ELSE /\ cbk' = [cbk EXCEPT !.pc = "check"]
              /\ UNCHANGED <<player, rl>>
    /\ UNCHANGED <<notPlayer, paused, aq, wk, dtor, env>>

\* if (myGeneration != callbackGeneration_.load()) return;
cb_check ==
    /\ cbk.pc = "check"
    /\ IF cbk.myGeneration # player.callbackGeneration_
         THEN /\ player' = CallbackExit(player)
              /\ cbk' = [cbk EXCEPT !.pc = "idle"]
         ELSE /\ cbk' = [cbk EXCEPT !.pc = "chunk"]
              /\ UNCHANGED player
    /\ UNCHANGED <<notPlayer, paused, aq, rl, wk, dtor, env>>

\* mutant: the callback reads the timeline under queueMutex_
cb_chunk_locked ==
    /\ cbk.pc = "chunk"
    /\ player.queueMutex_ = "none"
    /\ \E stalled \in BOOLEAN :
          IF stalled
            THEN /\ player' = CallbackExit([player EXCEPT !.needsReinit_ = TRUE])
                 /\ rl' = IF player.workerRunLoop_ THEN CFRunLoopStop(rl) ELSE rl
                 /\ cbk' = [cbk EXCEPT !.pc = "idle"]
            ELSE /\ cbk' = [cbk EXCEPT !.pc = "enqueue"]
                 /\ UNCHANGED <<player, rl>>
    /\ UNCHANGED <<notPlayer, paused, aq, wk, dtor, env>>

\* timeLine_.load(), getPlayerChunkOrSilence; no chunk for more than 5000 ms:
\* needsReinit_ = true, CFRunLoopStop(rl), return without enqueueing
cb_chunk ==
    /\ cbk.pc = "chunk"
    /\ \E stalled \in BOOLEAN :
          IF stalled
            THEN /\ player' = CallbackExit([player EXCEPT !.needsReinit_ = TRUE])
                 /\ rl' = IF player.workerRunLoop_ THEN CFRunLoopStop(rl) ELSE rl
                 /\ cbk' = [cbk EXCEPT !.pc = "idle"]
            ELSE /\ cbk' = [cbk EXCEPT !.pc = "enqueue"]
                 /\ UNCHANGED <<player, rl>>
    /\ UNCHANGED <<notPlayer, paused, aq, wk, dtor, env>>

\* AudioQueueEnqueueBuffer(queue, bufferRef, 0, NULL); the callback returns
cb_enqueue ==
    /\ cbk.pc = "enqueue"
    /\ aq' = AudioQueueEnqueueBuffer(cbk.queue)
    /\ player' = CallbackExit(player)
    /\ cbk' = [cbk EXCEPT !.pc = "idle"]
    /\ UNCHANGED <<notPlayer, paused, rl, wk, dtor, env>>

playerCallback == cb_invoke \/ cb_paused \/ cb_shutdown \/ cb_check \/ cb_chunk \/ cb_enqueue

\* -- ~IOSPlayer --

\* shutdownRequested_.store(true)
dtor_shutdown ==
    /\ dtor.pc = "none"
    /\ wk.pc # "start"
    /\ player' = [player EXCEPT !.shutdownRequested_ = TRUE]
    /\ dtor' = [dtor EXCEPT !.pc = "load"]
    /\ UNCHANGED <<notPlayer, paused, aq, rl, wk, cbk, env>>

\* CFRunLoopRef runLoop = workerRunLoop_.load()
dtor_load ==
    /\ dtor.pc = "load"
    /\ dtor' = [pc |-> "wake", runLoop |-> player.workerRunLoop_]
    /\ UNCHANGED <<notPlayer, paused, player, aq, rl, wk, cbk, env>>

\* if (runLoop) CFRunLoopStop(runLoop), on the handle loaded before
dtor_wake ==
    /\ dtor.pc = "wake"
    /\ dtor' = [dtor EXCEPT !.pc = "stop"]
    /\ rl' = IF dtor.runLoop THEN CFRunLoopStop(rl) ELSE rl
    /\ UNCHANGED <<notPlayer, paused, player, aq, wk, cbk, env>>

\* stop(): active_ = false, then the worker thread is joined
dtor_stop ==
    /\ dtor.pc = "stop"
    /\ player' = [player EXCEPT !.active_ = FALSE]
    /\ dtor' = [dtor EXCEPT !.pc = "join"]
    /\ UNCHANGED <<notPlayer, paused, aq, rl, wk, cbk, env>>

\* playerThread_.join() returns when the worker has ended
dtor_join ==
    /\ dtor.pc = "join"
    /\ wk.pc = "done"
    /\ dtor' = [dtor EXCEPT !.pc = "done"]
    /\ UNCHANGED <<notPlayer, paused, player, aq, rl, wk, cbk, env>>

IOSPlayer_destroy == dtor_shutdown \/ dtor_load \/ dtor_wake \/ dtor_stop \/ dtor_join

\* -- IOSPlayer::pause, IOSPlayer::resume, called by another thread --

\* g_ios_player_paused.store(true)
pause_flag ==
    /\ env = "idle" /\ dtor.pc = "none"
    /\ paused' = TRUE
    /\ env' = "pause_q"
    /\ UNCHANGED <<notPlayer, player, aq, rl, wk, cbk, dtor>>

\* lock_guard lock(queueMutex_); if (queue_) AudioQueuePause(queue_)
pause_queue ==
    /\ env = "pause_q"
    /\ player.queueMutex_ = "none"
    /\ aq' = IF player.queue_ # 0 /\ aq[player.queue_].status = "started"
               THEN [aq EXCEPT ![player.queue_].status = "pausedq"]
               ELSE aq
    /\ env' = "idle"
    /\ UNCHANGED <<notPlayer, paused, player, rl, wk, cbk, dtor>>

\* g_ios_player_paused.store(false)
resume_flag ==
    /\ env = "idle" /\ dtor.pc = "none"
    /\ paused' = FALSE
    /\ env' = "resume_q"
    /\ UNCHANGED <<notPlayer, player, aq, rl, wk, cbk, dtor>>

\* lock_guard lock(queueMutex_); if (queue_) AudioQueueStart(queue_, NULL)
resume_queue ==
    /\ env = "resume_q"
    /\ player.queueMutex_ = "none"
    /\ aq' = IF player.queue_ # 0 /\ aq[player.queue_].status \in {"created", "pausedq"}
               THEN [aq EXCEPT ![player.queue_].status = "started"]
               ELSE aq
    /\ env' = "idle"
    /\ UNCHANGED <<notPlayer, paused, player, rl, wk, cbk, dtor>>

IOSPlayer_pause == pause_flag \/ pause_queue

IOSPlayer_resume == resume_flag \/ resume_queue

NextPlayer ==
    \/ worker
    \/ playerCallback
    \/ IOSPlayer_destroy
    \/ IOSPlayer_pause
    \/ IOSPlayer_resume

\* every thread that can take a step eventually takes one, and the device
\* eventually calls back for a buffer that has played; whether and when the
\* destructor is called is the owner's choice
FairPlayer ==
    /\ WF_vars(worker)
    /\ WF_vars(playerCallback)
    /\ WF_vars(dtor_load \/ dtor_wake \/ dtor_stop \/ dtor_join)
    /\ WF_vars(pause_queue) /\ WF_vars(resume_queue)

SpecPlayer == Init /\ [][NextPlayer]_vars /\ FairPlayer

(* ---- IOSPlayer: buffer sizing and the playout delay ---- *)

\* what the sizing steps leave alone
notSizing == <<client, sys, pc, ns, ctl, bdReturned, executed, lastCb,
               streaming, regv, pausev, volv, playerv, lg, hs>>

\* IOSPlayer(io_context, settings, stream): ms_(100); the stream's format
\* gives the sample rate
IOSPlayer_new ==
    /\ bs.rate = 0
    /\ \E r \in Rates : bs' = [bs EXCEPT !.rate = r, !.ms_ = 100]
    /\ UNCHANGED notSizing

\* initAudioQueue: frames_ = (rate * ms_) / 1000; ms_ = frames_ * 1000 / rate
size_buffers ==
    /\ bs.rate # 0 /\ bs.inits < MaxInits
    /\ LET frames == (bs.rate * bs.ms_) \div 1000
       IN  bs' = [bs EXCEPT !.frames_ = frames,
                            !.ms_ = (frames * 1000) \div bs.rate,
                            !.inits = @ + 1]
    /\ UNCHANGED notSizing

\* mutant: the frames left in the buffer, without the outer modulo
BufferedFrames_nomod(frames, pos) == frames - (pos % frames)

\* bufferedFrames = (frames_ - ((uint64_t)mSampleTime % frames_)) % frames_
BufferedFrames(frames, pos) == (frames - (pos % frames)) % frames

\* bufferedMs = ms_ * (NUM_BUFFERS - 1); with a timeline:
\* bufferedFrames * 1000 / rate + ms_ * (NUM_BUFFERS - 1); then += 15
BufferedMs(tl, pos) ==
    (IF tl THEN (BufferedFrames(bs.frames_, pos) * 1000) \div bs.rate
                    + bs.ms_ * (NUM_BUFFERS - 1)
           ELSE bs.ms_ * (NUM_BUFFERS - 1)) + 15

\* playerCallback past its checks: the delay handed to getPlayerChunkOrSilence,
\* at a position up to MaxPos frames after or before a buffer boundary
playout_delay ==
    /\ bs.inits > 0
    /\ \E tl \in BOOLEAN, k \in 0..1, d \in 0..MaxPos, back \in BOOLEAN :
          LET pos == IF back THEN (k + 1) * bs.frames_ - d ELSE k * bs.frames_ + d
          IN  bs' = [bs EXCEPT !.pos = pos, !.tl = tl, !.bufferedMs = BufferedMs(tl, pos)]
    /\ UNCHANGED notSizing

NextSizing == IOSPlayer_new \/ size_buffers \/ playout_delay

SpecSizing == Init /\ [][NextSizing]_vars

(* ---- the pause flag and several handles ---- *)

\* what the calls on handles leave alone
notHandles == <<client, sys, pc, ns, ctl, bdReturned, executed, lastCb,
                streaming, regv, lastOp, ops, volv, playerv, lg, bs>>

\* snapclient_create: new SnapClient()
handle_create(h) ==
    /\ h \notin hs.live
    /\ hs' = [hs EXCEPT !.live = @ \cup {h}, !.op = "create", !.h = h]
    /\ UNCHANGED <<notHandles, paused>>

\* snapclient_destroy on a handle that was never started: delete client
handle_destroy(h) ==
    /\ h \in hs.live
    /\ hs' = [hs EXCEPT !.live = @ \ {h}, !.op = "destroy", !.h = h]
    /\ UNCHANGED <<notHandles, paused>>

\* snapclient_pause(client): player::g_ios_player_paused.store(true)
handle_pause(h) ==
    /\ h \in hs.live
    /\ paused' = TRUE
    /\ hs' = [hs EXCEPT !.op = "pause", !.h = h]
    /\ UNCHANGED notHandles

\* snapclient_resume(client): player::g_ios_player_paused.store(false)
handle_resume(h) ==
    /\ h \in hs.live
    /\ paused' = FALSE
    /\ hs' = [hs EXCEPT !.op = "resume", !.h = h]
    /\ UNCHANGED notHandles

\* snapclient_is_paused(client): std::ignore = client;
\* return player::g_ios_player_paused.load()
is_paused(h) == paused

\* a caller asks snapclient_is_paused(client) and keeps the answer
handle_is_paused(h) ==
    /\ h \in hs.live
    /\ hs' = [hs EXCEPT !.op = "is_paused", !.h = h, !.got = is_paused(h)]
    /\ UNCHANGED <<notHandles, paused>>

NextHandles ==
    \E h \in Handles :
        \/ handle_create(h) \/ handle_destroy(h)
        \/ handle_pause(h) \/ handle_resume(h)
        \/ handle_is_paused(h)

SpecHandles == Init /\ [][NextHandles]_vars

(* ---- one owner thread, with fairness ---- *)

\* the Controller's handlers run inside io_context.run(): the audio stream
\* starts to flow.  No statement of the bridge stores SNAPCLIENT_STATE_PLAYING,
\* and the Controller holds no reference to the handle, so the state is left
\* as it is
io_stream_flows ==
    /\ Runs(IO) /\ ~freed
    /\ pc[IO] = "run" /\ io_context = "running"
    /\ controller
    /\ ~streaming
    /\ streaming' = TRUE
    /\ UNCHANGED <<client, sys, pc, ns, ctl, bdReturned, executed, lastCb, notStream>>

\* the owner of the handle
Owner == "t1"

\* a step of the API call thread t is in (not the beginning of a new call)
Continue(t) ==
    /\ pc[t] # "idle"
    /\ \/ snapclient_set_state_callback(t)
       \/ snapclient_start(t)
       \/ snapclient_stop(t)
       \/ snapclient_destroy(t)

NextLive ==
    \/ snapclient_begin_destroy(Owner)
    \/ snapclient_set_state_callback(Owner)
    \/ snapclient_start(Owner)
    \/ snapclient_stop(Owner)
    \/ snapclient_destroy(Owner)
    \/ \E t \in {Owner, IO} : notify_state(t)
    \/ io_thread
    \/ io_stream_flows
    \/ \E t \in {Owner, IO} : UseAfterFree(t)
    \/ Abort

\* a call that has begun goes on, a callback body returns, the drain wait
\* reaches its deadline however often it is woken, the io thread leaves run() once the io_context is stopped and goes on
\* to its end, std::terminate aborts.  That a new call begins, that run()
\* throws and that the stream flows are not required
Fairness ==
    /\ WF_vars(Continue(Owner))
    /\ \A t \in {Owner, IO} : WF_vars(notify_state(t))
    /\ SF_vars(destroy_timeout(Owner))
    /\ WF_vars(io_run_stopped)
    /\ WF_vars(io_exit)
    /\ WF_vars(Abort)

SpecLive == Init /\ [][NextLive]_vars /\ Fairness

(* ---- C1 ---- *)

RECURSIVE SumOver(_, _)
SumOver(f, S) ==
    IF S = {} THEN 0
    ELSE LET x == CHOOSE y \in S : TRUE IN f[x] + SumOver(f, S \ {x})

\* the guarded paths thread t has run to the end of the callback body
Completed ==
    [t \in Threads |->
        iter[t] - (IF ns[t].pc \in {"ns_store", "g_check1", "g_inc", "g_check2",
                                    "ns_call", "body"} THEN 1 ELSE 0)]

AllFinished ==
    \A t \in Threads : iter[t] = MaxIter /\ ns[t].pc = "idle"

\* C4: while no destroy is in progress, no guard construction fails, the
\* counting body has run once for every guarded path that got past it, and
\* when all N threads have finished their M paths the count is N*M and
\* callbacksInFlight is 0.
C4_NoLostCallback ==
    ~destroying =>
        /\ \A t \in Threads : ns[t].pc \notin {"ns_invalid", "g_undo", "g_undo_notify"}
        /\ executed = SumOver(Completed, Threads)
        /\ AllFinished =>
              /\ executed = Cardinality(Threads) * MaxIter
              /\ callbacksInFlight = 0

C4_Witness ==
    /\ AllFinished
    /\ ~destroying
    /\ executed = Cardinality(Threads) * MaxIter
    /\ Cardinality(Threads) * MaxIter >= 6

(* ---- C2 ---- *)

\* C2: no thread reads or writes a field of the SnapClient after
\* snapclient_destroy has deleted it.
C2_NoUseAfterDelete == "use after free" \notin ub

(* ---- C3 ---- *)

\* C3: when snapclient_destroy has deleted the handle, callbacksInFlight is 0.
C3_DrainedAtDelete == freed => callbacksInFlight = 0

(* ---- C5 ---- *)

\* only thread t has called the API so far
OnlyCaller(t) == \A u \in Ctl \ {t} : calls[u] = 0

\* C5: a snapclient_start that finds the state not Disconnected returns false
\* and changes nothing: state, host, port, io_context, work_guard, controller
\* and the io thread are as before, and no notify_state is called.
C5_StartRejected ==
    [][\A t \in Ctl :
          (pc[t] = "st_check" /\ pc'[t] # "st_check"
                /\ state # SNAPCLIENT_STATE_DISCONNECTED)
            => /\ pc'[t] = "idle" /\ result'[t] = "start_busy"
               /\ state' = state /\ host' = host /\ port' = port
               /\ io_context' = io_context /\ work_guard' = work_guard
               /\ controller' = controller /\ joinable' = joinable
               /\ pc'[IO] = pc[IO] /\ ns' = ns]_vars

\* a second start has been rejected and the handle is still connected
C5_Witness ==
    \E t \in Ctl :
        /\ result[t] = "start_busy" /\ pc[t] = "idle"
        /\ state = SNAPCLIENT_STATE_CONNECTED /\ joinable /\ controller

(* ---- C6 ---- *)

\* C6: a snapclient_start that begins after snapclient_begin_destroy has
\* returned (here: the same thread called both, and no other thread calls)
\* returns false at its state check and leaves the state and the io_context,
\* controller and io thread as they were.
C6_StartAfterBeginDestroyFails ==
    [][\A t \in Ctl :
          (OnlyCaller(t) /\ bdReturned
                /\ pc[t] = "st_check" /\ pc'[t] # "st_check")
            => /\ pc'[t] = "idle" /\ result'[t] = "start_busy"
               /\ state' = state
               /\ io_context' = io_context /\ controller' = controller
               /\ joinable' = joinable]_vars

(* ---- C7 ---- *)

\* C7: when snapclient_start (on a handle not being destroyed, one caller)
\* returns false from its catch block, the state is
\* Disconnected, controller, work_guard and io_context are null, and the
\* handle has no io thread.
C7_ThrowLeavesNothing ==
    [][\A t \in Ctl :
          (OnlyCaller(t) /\ ~destroying /\ pc[t] = "st_fail" /\ pc'[t] = "idle")
            => /\ result'[t] = "start_throw"
               /\ state' = SNAPCLIENT_STATE_DISCONNECTED
               /\ ~controller' /\ ~work_guard' /\ io_context' = "null"
               /\ ~joinable' /\ pc'[IO] = "off"]_vars

(* ---- C8 ---- *)

\* thread t enters snapclient_stop in this step (a call that is none of the
\* other API functions, or snapclient_destroy's call of it)
StopBegins(t) ==
    \/ /\ pc[t] = "idle" /\ calls'[t] = calls[t] + 1
       /\ pc'[t] \notin {"st_check", "d_lock", "sc_set"}
       /\ result'[t] \notin {"begin_destroy", "set_cb_ignored"}
    \/ pc[t] = "s_check1" /\ pc'[t] # "s_check1"

\* C8: a snapclient_stop that finds the state Disconnected returns at once:
\* no field of the handle changes, no thread is joined and no notify_state is
\* called.
C8_StopIdempotent ==
    [][\A t \in Ctl :
          (StopBegins(t) /\ state = SNAPCLIENT_STATE_DISCONNECTED)
            => /\ UNCHANGED client
               /\ pc'[IO] = pc[IO] /\ ns' = ns
               /\ pc'[t] \in {"idle", "d_delete"}
               /\ result'[t] \in {"stop_noop", "stop_twice"}]_vars

\* a stop directly after a completed stop has returned as a no-op
C8_Witness ==
    \E t \in Ctl :
        /\ result[t] = "stop_twice" /\ pc[t] = "idle"
        /\ state = SNAPCLIENT_STATE_DISCONNECTED /\ ~joinable

(* ---- C9 ---- *)

\* C9: when a snapclient_stop whose first check found the state not
\* Disconnected returns (one caller, handle not being destroyed), the work
\* guard is released,
\* the io thread is joined, controller and io_context are released and the
\* state is Disconnected; and no thread holds the mutex while it joins.
C9_StopJoinsAndReleases ==
    [][\A t \in Ctl :
          /\ (OnlyCaller(t) /\ ~destroying /\ pc[t] \in {"s_phase1", "s_ret"}
                  /\ pc'[t] \in {"idle", "d_delete"})
               => /\ ~work_guard' /\ ~joinable' /\ pc'[IO] = "off"
                  /\ ~controller' /\ io_context' = "null"
                  /\ state' = SNAPCLIENT_STATE_DISCONNECTED
          /\ pc'[t] = "s_join" => mutexOwner' # t]_vars

(* ---- C10 ---- *)

Allowed(a, b) ==
    \/ a = SNAPCLIENT_STATE_DISCONNECTED /\ b = SNAPCLIENT_STATE_CONNECTING
    \/ a = SNAPCLIENT_STATE_CONNECTING /\ b = SNAPCLIENT_STATE_CONNECTED
    \/ a = SNAPCLIENT_STATE_CONNECTED /\ b = SNAPCLIENT_STATE_PLAYING
    \/ b = SNAPCLIENT_STATE_DISCONNECTED

\* C10: every change of the stored state of a handle not being destroyed is
\* Disconnected->Connecting,
\* Connecting->Connected, Connected->Playing or (any)->Disconnected.
C10_StateTransitions ==
    [][(~destroying /\ state' # state) => Allowed(state, state')]_vars

(* ---- C11 ---- *)

\* the connection is up: the io thread is inside run() and nobody has begun
\* to stop or destroy the handle
ConnectionUp ==
    /\ pc[IO] = "run" /\ io_context = "running" /\ controller
    /\ ~destroying /\ proc = "live"

\* C11: after a successful start, once the audio stream flows the state
\* advances from Connected to Playing (unless the connection goes down or
\* the handle is disconnected first).
C11_StreamLeadsToPlaying ==
    (streaming /\ state = SNAPCLIENT_STATE_CONNECTED /\ ConnectionUp)
        ~> \/ state \in {SNAPCLIENT_STATE_PLAYING, SNAPCLIENT_STATE_DISCONNECTED}
           \/ ~ConnectionUp

(* ---- C12 ---- *)

\* C12: two consecutive invocations of the state callback (one caller, handle
\* not being destroyed) never carry the same state.
C12_CallbackOnlyOnChange ==
    [][\A t \in Threads :
          (OnlyCaller(Owner) /\ ~destroying
                /\ ns[t].pc = "ns_call" /\ ns'[t].pc = "body")
            => ns[t].st # lastCb]_vars

(* ---- C13 ---- *)

\* C13: when two threads call snapclient_stop concurrently on a connected
\* handle (that is not being destroyed), the io thread is joined exactly
\* once: no thread calls join() on the io thread after another has joined it.
C13_ConcurrentStopJoinsOnce ==
    ~destroying => "join of a thread already joined" \notin ub

(* ---- C14 ---- *)

\* C14: snapclient_destroy always terminates: once called it returns to its
\* caller (having waited for the drain or its timeout, stopped and joined
\* the io thread, and deleted the handle).
C14_DestroyReturns ==
    (destroyer # "none") ~> (\E t \in Ctl : result[t] = "destroyed")

(* ---- C15 ---- *)

\* C15: a registration that begins after snapclient_begin_destroy has
\* returned is ignored (it returns at once and no stored pair changes); a
\* registration that stores leaves exactly its callback and context in its
\* own pair and the other pairs as they were; and whenever no registration
\* holds the mutex every stored pair is one that some caller passed, whatever
\* the interleaving.
C15_Registration ==
    [][\A t \in Ctl :
          /\ (pc[t] = "idle" /\ calls'[t] # calls[t] /\ bdReturned)
               => (slot' = slot /\ pc'[t] = "idle")
          /\ (pc[t] = "rg_ctx" /\ pc'[t] = "idle")
               => slot' = [slot EXCEPT ![rg[t].kind] =
                                          [cb |-> rg[t].cb, ctx |-> rg[t].ctx]]
          /\ mutexOwner' = "none" => \A k \in Kinds : slot'[k] \in Pairs]_vars

\* a pair is registered, and a registration of another callback that began
\* after begin_destroy had returned was ignored
C15_Witness ==
    /\ \E t \in Ctl : result[t] = "reg_ignored" /\ rg[t].late /\ rg[t].cb # "null"
                        /\ slot[rg[t].kind].cb # rg[t].cb
    /\ \E k \in Kinds : slot[k].cb # "null"
    /\ \A t \in Ctl : pc[t] = "idle"

(* ---- C16 ---- *)

\* all contending threads have ended
PauseDone == \A t \in Threads : pc[t] = "idle"

\* C16: pause and resume calls from several threads never deadlock (until all
\* threads have ended some call can take a step), every call is counted, and
\* snapclient_is_paused is the value of the call whose store came last: true
\* after pause, false after resume.
C16_PauseResume ==
    /\ PauseDone \/ ENABLED NextPause
    /\ lastOp # "none" => (snapclient_is_paused <=> lastOp = "pause")
    /\ PauseDone => ops = Cardinality(Threads) * MaxIter

\* all calls have returned and the last store was a resume
C16_Witness ==
    /\ PauseDone /\ ops = Cardinality(Threads) * MaxIter
    /\ lastOp = "resume" /\ ~snapclient_is_paused

(* ---- C17 ---- *)

Min(a, b) == IF a <= b THEN a ELSE b
Max(a, b) == IF a >= b THEN a ELSE b

\* what reads back after the set_volume calls with arguments ps, in that order
ReadsBack(ps) == IF ps = <<>> THEN 100 ELSE Min(100, Max(0, ps[Len(ps)]))

\* C17: the volume is always in 0..100 and is min(100, max(0, p)) for the
\* last p set, 100 on a fresh handle; every snapclient_get_volume returned that
\* value for the sets made before it.
C17_VolumeClamp ==
    /\ volume \in 0..100
    /\ volume = ReadsBack(sets)
    /\ \A t \in Ctl :
          vl[t].read => vl[t].got = ReadsBack(SubSeq(sets, 1, vl[t].at))

\* 150 was set and read back as 100, then -5 was set and the volume is 0
C17_Witness ==
    /\ Len(sets) >= 2 /\ sets[1] = 150 /\ sets[Len(sets)] = -5
    /\ volume = 0
    /\ \E t \in Ctl : vl[t].read /\ vl[t].at = 1 /\ vl[t].got = 100

(* ---- C19 ---- *)

\* C19: at most one device queue is live (created and not disposed) in every
\* reachable state.
C19_OneSession == Cardinality(LiveSessions) <= 1

\* a second queue is live after the first has been released
C19_Witness ==
    /\ aq[1].status = "disposed"
    /\ aq[3].status = "started" /\ player.queue_ = 3

(* ---- C18 ---- *)

\* C18: a render callback re-submits its buffer only when the generation it
\* captured is still the live one, on the paused fast path and on the normal
\* path alike.
C18_NoStaleWrites ==
    [][((cbk.pc = "enqueue" \/ (cbk.pc = "paused" /\ paused)) /\ cbk'.pc = "idle")
          => cbk.myGeneration = player.callbackGeneration_]_vars

(* ---- C20 ---- *)

\* C20: once the destructor has set shutdownRequested_ and made its wake
\* call, the worker thread eventually ends.
C20_CancellationLive == (dtor.pc = "stop") ~> (wk.pc = "done")

(* ---- C21 ---- *)

\* C21: once a stall has been signalled (needsReinit_ set while no shutdown
\* is requested), the worker eventually is back at waiting for data, unless
\* shutdown is requested meanwhile.
C21_StallLeadsToReinit ==
    (player.needsReinit_ /\ ~player.shutdownRequested_)
        ~> (wk.pc = "wait" \/ player.shutdownRequested_)

(* ---- C22 ---- *)

\* what a teardown changes: the queues' status, the generation, queue_, timeLine_
DeviceState ==
    <<[s \in Sessions |-> aq[s].status], player.callbackGeneration_,
      player.queue_, player.timeLine_>>

CleanupPcs == {"cleanup", "c_lock", "c_stop", "c_wait", "c_dispose"}

\* C22: no step of a render callback, made by the device or by the worker's
\* pre-fill, changes the device state; cleanupAudioQueue begins only when
\* CFRunLoopRun has returned, and a queue is stopped only by the worker in
\* cleanupAudioQueue.
C22_TeardownOnWorkerOnly ==
    [][/\ (cbk' # cbk \/ (wk.pc = "prime" /\ wk'.pc = "prime" /\ wk'.i # wk.i))
            => DeviceState' = DeviceState
       /\ (wk'.pc \in CleanupPcs /\ wk.pc \notin CleanupPcs)
            => (wk.pc = "blocked" /\ rl = "stopped" /\ wk'.pc = "cleanup")
       /\ \A s \in Sessions :
            (aq'[s].status = "stopped" /\ aq[s].status # "stopped")
               => (wk.pc = "c_stop" /\ wk.queue = s /\ cbk' = cbk)]_vars

\* a callback signalled reinit and came back; the worker then tore the
\* session down
C22_Witness ==
    /\ player.needsReinit_ /\ ~player.shutdownRequested_
    /\ cbk.pc = "idle" /\ wk.pc = "sleep"
    /\ aq[1].status = "disposed" /\ player.queue_ = 0

(* ---- C23 ---- *)

\* thread t's step is a whole snapclient_begin_destroy call
BeginDestroyStep(t) ==
    /\ calls'[t] = calls[t] + 1 /\ pc'[t] = pc[t]
    /\ result'[t] = "begin_destroy"

\* C23: destroying never goes back to false; a snapclient_begin_destroy on a
\* handle already destroying, and the store at the start of snapclient_destroy
\* after a begin_destroy, change nothing of the handle.
C23_DestroyingMonotone ==
    [][/\ destroying => destroying'
       /\ \A t \in Ctl : (destroying /\ BeginDestroyStep(t)) => client' = client
       /\ (destroying /\ destroyer = "none" /\ destroyer' # "none") => client' = client]_vars

\* t2 has called snapclient_begin_destroy, and then t1, after an earlier
\* call, has begun snapclient_destroy
C23_Witness ==
    /\ result["t2"] = "begin_destroy" /\ calls["t1"] >= 2
    /\ destroyer = "t1" /\ destroying
    /\ bdReturned /\ pc["t1"] = "d_lock"

(* ---- C24 ---- *)

\* threads between a guard's increment and the end of its re-check
InWindow == {t \in Threads : ns[t].pc \in {"g_check2", "g_undo"}}

\* threads holding a valid guard
ValidGuards == {t \in Threads : Valid(t)}

\* C24: callbacksInFlight is never negative and counts the valid guards alive
\* plus the guards inside their increment-then-recheck window; a guard is
\* invalid only when it has seen destroying, and it then holds no count.
C24_GuardAccounting ==
    /\ callbacksInFlight >= 0
    /\ callbacksInFlight = Cardinality(ValidGuards) + Cardinality(InWindow)
    /\ \A t \in Threads :
          ns[t].pc \in {"ns_invalid", "g_undo", "g_undo_notify"} => destroying

\* a guard failed after its increment and has taken it back, while another
\* thread runs a callback body under a valid guard
C24_Witness ==
    /\ \E t \in Threads : ns[t].pc = "g_undo_notify"
    /\ \E t \in Threads : ns[t].pc = "body"
    /\ callbacksInFlight = 1

(* ---- C25 ---- *)

C26_CallbackOutsideLock ==
    \A t \in Threads : ns[t].pc = "body" => mutexOwner # t

(* ---- C27 ---- *)

\* C27: in cleanupAudioQueue a queue is stopped only after queue_ was cleared
\* and the generation moved past the queue's own; the queue and its timeline
\* are disposed only after the stop and after the wait for the callback has
\* ended (callbackActive_ seen clear, or timed out).
C27_TeardownOrder ==
    [][/\ \A s \in Sessions :
            /\ (aq'[s].status = "stopped" /\ aq[s].status # "stopped")
                 => (player.queue_ = 0 /\ player.callbackGeneration_ > s)
            /\ (wk.pc \in CleanupPcs /\ aq'[s].status = "disposed" /\ aq[s].status # "disposed")
                 => /\ wk.pc = "c_dispose" /\ aq[s].status = "stopped"
                    /\ player.queue_ = 0 /\ player.callbackGeneration_ > s
       /\ (wk.pc \in CleanupPcs /\ player'.timeLine_ # player.timeLine_) => wk.pc = "c_dispose"
       /\ (wk'.pc = "c_dispose" /\ wk.pc # "c_dispose") => wk.pc = "c_wait"]_vars

\* cleanup has disposed of the first session although its callback was still
\* running when the wait ended
C27_Witness ==
    /\ aq[1].status = "disposed" /\ wk.pc = "sleep"
    /\ player.queue_ = 0 /\ player.timeLine_ = 0
    /\ cbk.pc # "idle" /\ cbk.queue = 1 /\ player.callbackActive_

(* ---- C28 ---- *)

\* C28: a render callback in flight can always take its next step, whoever
\* holds queueMutex_, and no step of it takes or releases that mutex.
C28_CallbackTakesNoMutex ==
    [][/\ cbk.pc # "idle" => ENABLED playerCallback
       /\ cbk' # cbk => player'.queueMutex_ = player.queueMutex_]_vars

\* a callback is past its checks, about to enqueue, while the worker holds
\* queueMutex_ in cleanupAudioQueue and waits for it
C28_Witness ==
    /\ player.queueMutex_ = "worker" /\ wk.pc = "c_wait"
    /\ cbk.pc = "enqueue" /\ player.callbackActive_

(* ---- C29 ---- *)

\* the step in which a render callback takes the paused fast path
PausedFastPath == cbk.pc = "paused" /\ paused /\ cbk' # cbk

\* the fast path re-submits its buffer, once, to its own queue
ResubmitsOnce ==
    /\ cbk'.pc = "idle"
    /\ \A s \in Sessions :
          /\ aq'[s].status = aq[s].status
          /\ aq'[s].enq = IF s = cbk.queue /\ aq[s].status # "disposed"
                            THEN aq[s].enq + 1 ELSE aq[s].enq

\* C29 as stated: the paused fast path re-submits its buffer once and
\* returns, and writes no shared state of the player at all.
C29_PausedTouchesNothing ==
    [][PausedFastPath => (ResubmitsOnce /\ rl' = rl /\ player' = player)]_vars

\* C29 as amended: the paused fast path re-submits its buffer once and
\* returns without setting needsReinit_ or waking the run loop; the only
\* shared state it writes is callbackActive_, which it clears on return.
C29_PausedFastPath ==
    [][PausedFastPath =>
          /\ ResubmitsOnce /\ rl' = rl
          /\ player' = [player EXCEPT !.callbackActive_ = FALSE]
          /\ player.callbackActive_]_vars

\* an invocation for the first queue has returned with the pause flag set:
\* all buffers are enqueued again, no reinit is signalled, the run loop runs
C29_Witness ==
    /\ cbk.pc = "idle" /\ cbk.queue = 1 /\ paused
    /\ aq[1].status = "started" /\ aq[1].enq = NUM_BUFFERS
    /\ ~player.needsReinit_ /\ ~player.callbackActive_ /\ rl = "running"

(* ---- C30 ---- *)

\* the step in which a render callback, not paused, sees shutdownRequested_
ShutdownPath == cbk.pc = "shutdown" /\ player.shutdownRequested_ /\ cbk' # cbk

\* the step of a render callback re-submits a buffer
Resubmits == \E s \in Sessions : aq'[s].enq > aq[s].enq

\* C30: on the shutdown path the callback sets needsReinit_, stops the
\* worker's run loop if its handle is set, and returns without re-submitting;
\* a step that re-submits a buffer re-submits one and ends the invocation,
\* and an invocation that signals reinit (on shutdown or on a stall)
\* re-submits none.
C30_ShutdownPath ==
    [][/\ ShutdownPath =>
            /\ player'.needsReinit_ /\ cbk'.pc = "idle" /\ aq' = aq
            /\ rl' = IF player.workerRunLoop_ THEN CFRunLoopStop(rl) ELSE rl
       /\ (cbk' # cbk /\ cbk.pc # "idle" /\ Resubmits) =>
            /\ cbk'.pc = "idle" /\ cbk.pc \in {"paused", "enqueue"}
            /\ aq' = [aq EXCEPT ![cbk.queue].enq = @ + 1]
            /\ player'.needsReinit_ = player.needsReinit_ /\ rl' = rl
       /\ (cbk.pc \in {"shutdown", "chunk"} /\ cbk'.pc = "idle") =>
            (player'.needsReinit_ /\ aq' = aq)]_vars

\* an invocation for the first queue returned on the shutdown path: reinit is
\* signalled, the run loop is stopped, and its buffer is not back in the queue
C30_Witness ==
    /\ cbk.pc = "idle" /\ cbk.queue = 1 /\ ~paused
    /\ player.shutdownRequested_ /\ player.needsReinit_
    /\ rl = "stopped" /\ wk.pc = "blocked"
    /\ aq[1].status = "started" /\ aq[1].enq = NUM_BUFFERS - 1

(* ---- C31 ---- *)

\* the step in which initAudioQueue returns false because AudioQueueNewOutput
\* or AudioQueueStart failed
InitFails == wk.pc \in {"new", "startq"} /\ wk'.pc = "sleep"

\* the worker, at `if (!needsReinit_) chronos::sleep(100)`, will sleep
SleepsBackoff == ~player.needsReinit_

\* C31: when creating or starting the device queue fails, initAudioQueue
\* returns with queue_ and the timeline null and no device queue left, the
\* worker goes on to its backoff and not to the event loop or teardown, it
\* sleeps the backoff, and from there it only returns to the loop condition.
C31_InitFailure ==
    [][/\ InitFails =>
            /\ player'.queue_ = 0 /\ player'.timeLine_ = 0
            /\ LiveSessions' = {}
            /\ SleepsBackoff'
       /\ (wk.pc = "sleep" /\ wk' # wk) => wk'.pc = "loop"]_vars

(* ---- C32 ---- *)

\* C32: callbackGeneration_ never decreases; it grows by exactly one in
\* initAudioQueue when no queue exists, by exactly one at the start of
\* cleanupAudioQueue, and in no other step; so the generation under which a
\* new queue is created has never named a queue before.
C32_GenerationMonotone ==
    [][/\ player'.callbackGeneration_ >= player.callbackGeneration_
       /\ (wk.pc = "init" /\ wk' # wk) =>
             player'.callbackGeneration_ =
                 IF player.queue_ = 0 THEN player.callbackGeneration_ + 1
                                      ELSE player.callbackGeneration_
       /\ (wk.pc = "cleanup" /\ wk' # wk) =>
             player'.callbackGeneration_ = player.callbackGeneration_ + 1
       /\ player'.callbackGeneration_ # player.callbackGeneration_ =>
             (wk.pc \in {"init", "cleanup"} /\ wk' # wk)
       /\ (wk.pc = "new" /\ wk'.pc = "setq") =>
             /\ aq[player.callbackGeneration_].status = "none"
             /\ wk'.queue = player.callbackGeneration_
             /\ \A s \in Sessions : aq[s].status # "none" => s < player.callbackGeneration_]_vars

\* a second session is live after the first was torn down: the first ran
\* under generation 1, cleanup moved it to 2, the second runs under 3
C32_Witness ==
    /\ aq[1].status = "disposed" /\ aq[2].status = "none"
    /\ aq[3].status = "started" /\ player.queue_ = 3
    /\ player.callbackGeneration_ = 3 /\ wk.pc = "blocked"

(* ---- C33 ---- *)

\* C33: the destructor never calls CFRunLoopStop on a run-loop handle that
\* the worker has already cleared on its way out.
C33_NoWakeAfterExit ==
    [][(dtor.pc = "wake" /\ dtor'.pc = "stop" /\ dtor.runLoop) =>
           (player.workerRunLoop_ /\ wk.pc # "done")]_vars

(* ---- C34 ---- *)

\* C34: whenever the worker is waiting for data or has exited, no session is
\* live: queue_ and the timeline handle are null and no device queue exists
\* that has not been disposed.
C34_NoSessionAtRest ==
    wk.pc \in {"wait", "done"} =>
        (player.queue_ = 0 /\ player.timeLine_ = 0 /\ LiveSessions = {})

(* ---- C35 ---- *)

\* the frames left in the current buffer, as the claim defines them
FramesRemaining == (bs.frames_ - (bs.pos % bs.frames_)) % bs.frames_

\* the delay without the frames left in the current buffer
BaseDelay == bs.ms_ * (NUM_BUFFERS - 1) + 15

\* the delay, as the claim defines it
ClaimedDelay ==
    IF bs.tl THEN (FramesRemaining * 1000) \div bs.rate + BaseDelay ELSE BaseDelay

\* the step in which the callback computes its delay
DelayStep == bs.inits > 0 /\ bs'.inits = bs.inits /\ bs' # bs

\* C35 as stated: the delay computed by the callback is the claimed
\* expression, and it lies in [ms_*(N-1)+15, ms_*N+15).
C35_DelayHalfOpen ==
    [][DelayStep =>
          /\ bs'.bufferedMs = ClaimedDelay'
          /\ bs'.bufferedMs >= BaseDelay' /\ bs'.bufferedMs < BaseDelay' + bs'.ms_]_vars

\* C35 as amended: the delay computed by the callback is the claimed
\* expression; it lies in [ms_*(N-1)+15, ms_*N+15], the upper end included,
\* and below ms_*N+15 when rate*100 is a multiple of 1000; without a
\* timeline it is exactly ms_*(N-1)+15.
C35_DelayRange ==
    [][DelayStep =>
          /\ bs'.bufferedMs = ClaimedDelay'
          /\ bs'.bufferedMs >= BaseDelay' /\ bs'.bufferedMs <= BaseDelay' + bs'.ms_
          /\ (bs.rate * 100) % 1000 = 0 => bs'.bufferedMs < BaseDelay' + bs'.ms_
          /\ ~bs'.tl => bs'.bufferedMs = BaseDelay']_vars

\* at 11025 Hz, one frame into a buffer of 1102 frames, the 1101 frames left
\* count as 99 ms, a whole buffer: the delay is 4 * 99 + 15
C35_Witness ==
    /\ bs.rate = 11025 /\ bs.frames_ = 1102 /\ bs.ms_ = 99
    /\ bs.tl /\ bs.pos % bs.frames_ = 1
    /\ bs.bufferedMs = 411

(* ---- C36 ---- *)

\* C36: whenever no API call is in progress on a handle that exists and is
\* not being destroyed, and the stored state is Disconnected, the handle has no un-joined io thread and no
\* controller, work guard or io_context.
C36_DisconnectedOwnsNothing ==
    (/\ ~freed /\ proc = "live" /\ ~destroying
     /\ \A t \in Ctl : pc[t] = "idle" /\ ns[t].pc = "idle"
     /\ state = SNAPCLIENT_STATE_DISCONNECTED)
        => (~joinable /\ ~controller /\ ~work_guard /\ io_context = "null")

(* ---- C37 ---- *)

\* a thread is between the guard's decrement and its notify_all
NotifyPending == \E t \in Threads : ns[t].pc \in {"g_notify", "g_undo_notify"}

\* C37: snapclient_destroy is never blocked in its drain wait, un-notified,
\* with callbacksInFlight already 0 and no notification still to come (from
\* there only the 2 s timeout ends the wait).
C37_NoLostWakeup ==
    \A t \in Ctl :
        (pc[t] = "d_wait" /\ cv = "waiting" /\ callbacksInFlight = 0)
            => NotifyPending

(* ---- C38 ---- *)

\* no API call and no notify_state is in progress, and the io thread is not
\* on its way out
Quiescent ==
    /\ \A t \in Threads : ns[t].pc = "idle"
    /\ \A t \in Ctl : pc[t] = "idle"
    /\ pc[IO] \in {"off", "run", "done"}

\* C38: on a handle whose state callback was registered before its first
\* start, whenever the handle is quiescent and its destruction has not begun,
\* the state last passed to the callback is the stored state.
C38_LastNotifiedIsStored ==
    (Quiescent /\ ~destroying /\ ~freed /\ proc = "live" /\ lastCb # -1)
        => lastCb = state

(* ---- C39 ---- *)

\* C39: every initAudioQueue after the first computes the frames_ and ms_
\* that the one before it computed, hence those of the first.
C39_SizingStable ==
    [][(bs.inits > 0 /\ bs'.inits = bs.inits + 1) =>
          (bs'.frames_ = bs.frames_ /\ bs'.ms_ = bs.ms_)]_vars

(* ---- C40 ---- *)

====
